---- MODULE Spec2Model ----
(***************************************************************************)
(* A state-machine model of the signalk-weatherflow plugin (index.ts and   *)
(* windCalculations.ts): the plugin state object, the lifecycle and the    *)
(* PUT control surface, the arrival channels (datagrams, streaming socket, *)
(* polled forecast fetch), the vessel-position subscription, and the       *)
(* Weather API query facade (getObservations/getForecasts/getWarnings).    *)
(*                                                                         *)
(* Conventions.                                                            *)
(*  - A JavaScript value that may be null/undefined and is otherwise an    *)
(*    object is a sequence of length 0 (null) or 1 (<<object>>).           *)
(*  - An optional number is an integer, with `undefined` for absence.      *)
(*  - Latitudes and longitudes are integers in millidegrees; distances are *)
(*    whole metres; wall-clock instants are milliseconds, epochs seconds.  *)
(*  - An ISO-8601 string produced by Date.toISOString() is represented by  *)
(*    the millisecond instant it denotes (the string/instant round trip of *)
(*    a valid Date is exact at millisecond resolution); an invalid Date    *)
(*    makes toISOString() throw, which the model keeps as a `threw` flag.  *)
(***************************************************************************)
EXTENDS Integers, Sequences, FiniteSets, TLC

VARIABLES
  running,                 \* plugin.start has run and plugin.stop has not
  config,                  \* the `config` built by plugin.start and captured by its closures
  currentConfig,           \* state.currentConfig: null or <<config>>
  registered,              \* the Weather API provider has been registered with the host
  udpServer,               \* state.udpServer: "null" or "bound"
  wsConnection,            \* state.wsConnection: "null", "connecting", "open", "closed"
  forecastInterval,        \* state.forecastInterval: "null" or "active"
  windCalculations,        \* state.windCalculations: null or <<NavigationState>>
  navigationSubscriptions, \* state.navigationSubscriptions: sequence of live subscriptions
  webSocketEnabled,        \* state.webSocketEnabled
  forecastEnabled,         \* state.forecastEnabled
  windCalculationsEnabled, \* state.windCalculationsEnabled
  putHandlers,             \* state.putHandlers: set of registered services
  latestObservations,      \* state.latestObservations: Map in insertion order
  latestForecastData,      \* state.latestForecastData: null or <<bundle>>
  stationLocation,         \* state.stationLocation: null or <<Position>>
  currentVesselPosition,   \* state.currentVesselPosition: null or <<Position>>
  pendingFetch,            \* number of forecast requests in flight
  now,                     \* wall clock, milliseconds
  reply,                   \* value returned by the facade call just answered
  putReply,                \* value returned by the PUT handler just answered
  lastStrike,              \* history: epoch of the last ingested Tempest observation with strikes
  stateFile,               \* the on-disk record signalk-weatherflow-state.json: null or <<flags>>
  savedOptions,            \* the plugin options the host has stored and passes to plugin.start
  signalk,                 \* the host's data model: latest values on the plugin's own paths the calculator subscribes to
  datagram,                \* the message just delivered to a callback (datagram, frame, response), and how the callback ended
  published,               \* the deltas handed to app.handleMessage by the datagram handler just run
  converted,               \* the key, value and result of the conversion just made
  timers,                  \* the interval timers set by setInterval and not yet cleared
  sockets,                 \* the sockets created by new WebSocket and not yet closed
  received                 \* history: the last value delivered to the calculator for each field since plugin.start, the constructor's default where none was

vars == <<running, config, currentConfig, registered, udpServer, wsConnection, forecastInterval,
          windCalculations, navigationSubscriptions, webSocketEnabled,
          forecastEnabled, windCalculationsEnabled, putHandlers,
          latestObservations, latestForecastData, stationLocation,
          currentVesselPosition, pendingFetch, now, reply, putReply, lastStrike,
          stateFile, savedOptions,
          signalk, datagram, published, converted,
          timers, sockets,
          received>>

(***************************************************************************)
(* Bounds of the model.                                                    *)
(***************************************************************************)
MaxHourly == 73   \* longest hourly list in a polled response
MaxDaily == 11    \* longest daily list in a polled response
MaxPending == 1   \* forecast requests in flight at once
MaxCountArg == 2  \* largest maxCount passed to a query

null == <<>>
undefined == -1

Min(a, b) == IF a < b THEN a ELSE b
Abs(a) == IF a < 0 THEN -a ELSE a

\* JavaScript truthiness of an optional number: undefined and 0 are falsy.
Truthy(n) == n # undefined /\ n # 0

(***************************************************************************)
(* Positions.                                                              *)
(***************************************************************************)
Pos(lat, lon) == [latitude |-> lat, longitude |-> lon]

Origin == Pos(0, 0)                 \* the default of getStationLocation
NearOrigin == Pos(899, 0)           \*  99 964 m from Origin
OffOrigin == Pos(900, 0)            \* 100 075 m from Origin
HomePort == Pos(10000, 10000)       \* a configured station coordinate
NearHome == Pos(10899, 10000)       \*  99 964 m from HomePort
OffHome == Pos(10900, 10000)        \* 100 075 m from HomePort
AtSea == Pos(20000, 10000)          \* a vessel position 1 112 km from HomePort
NearSea == Pos(20899, 10000)        \*  99 964 m from AtSea

RequestPositions == {NearOrigin, OffOrigin, NearHome, OffHome, NearSea}
VesselPositions == {HomePort, AtSea}

\* Earth radius of calculateDistance, metres.
R == 6371000
\* R * PI / 180: millimetres of meridian arc per millidegree (111194.93 rounded).
ArcPerMilliDegree == 111195

\* The haversine value for the pairs of model positions that lie on
\* different meridians (the source formula evaluated in IEEE doubles, whole
\* metres).
haversineTable(p, q) ==
  CASE p = NearOrigin /\ q = Origin -> 99964
    [] p = OffOrigin /\ q = Origin -> 100075
    [] p = NearOrigin /\ q = HomePort -> 1498904
    [] p = OffOrigin /\ q = HomePort -> 1498829
    [] p = NearOrigin /\ q = AtSea -> 2386317
    [] p = OffOrigin /\ q = AtSea -> 2386218
    [] p = NearHome /\ q = Origin -> 1640178
    [] p = OffHome /\ q = Origin -> 1640259
    [] p = NearSea /\ q = Origin -> 2565410
    [] OTHER -> 2 * R

\* calculateDistance: the haversine great-circle distance.  For two points on
\* one meridian the formula reduces to a = sin^2(dphi/2), c = |dphi|, so the
\* distance is R * |dphi|; other pairs are looked up.
calculateDistance(pos1, pos2) ==
  IF pos1.longitude = pos2.longitude
  THEN (Abs(pos2.latitude - pos1.latitude) * ArcPerMilliDegree) \div 1000
  ELSE haversineTable(pos1, pos2)

\* getCurrentVesselPosition
getCurrentVesselPosition == currentVesselPosition

\* getStationLocation: vessel position, else configured station, else (0,0).
getStationLocation ==
  IF getCurrentVesselPosition # null THEN getCurrentVesselPosition[1]
  ELSE IF stationLocation # null THEN stationLocation[1]
  ELSE Origin

(***************************************************************************)
(* Polled forecast responses (ForecastData).  An absent `forecast.hourly`  *)
(* or `forecast.daily` behaves as an empty list everywhere it is read, so  *)
(* both are sequences.  Hourly entries carry `time`; daily entries carry   *)
(* `day_start_local` and no `time` (types.ts HourlyForecast/DailyForecast).*)
(***************************************************************************)
HourSec == 60 * 60
DaySec == 24 * HourSec

HourlyEntry(i) == [time |-> HourSec * i, datetime |-> undefined,
                   day_start_local |-> undefined]
DailyEntry(i) == [time |-> undefined, datetime |-> undefined,
                  day_start_local |-> DaySec * (i - 1)]

CurrentConditions(t) == [time |-> t]

Bundle(h, d, cc) ==
  [current_conditions |-> cc,
   hourly |-> [i \in 1..h |-> HourlyEntry(i)],
   daily |-> [i \in 1..d |-> DailyEntry(i)]]

\* <<hourly length, daily length>> of the polled responses.
ResponseShapes == { <<0, 0>>, <<2, 0>>, <<2, 2>>, <<MaxHourly, MaxDaily>> }

Responses ==
  { Bundle(sh[1], sh[2], cc) : sh \in ResponseShapes,
                               cc \in {null, <<CurrentConditions(0)>>} }

(***************************************************************************)
(* Query options (WeatherReqParams).  startDate is the instant its string  *)
(* parses to; a present startDate string is truthy whatever it denotes.    *)
(***************************************************************************)
Options(maxCount, startDate) == [maxCount |-> maxCount, startDate |-> startDate]
NoOptions == Options(undefined, undefined)
MaxCounts == {undefined} \cup (0..MaxCountArg)
StartDates == {undefined, 2 * HourSec * 1000}
AllOptions == { Options(m, s) : m \in MaxCounts, s \in StartDates }
ForecastTypes == {"point", "daily"}

\* convertForecastToWeatherAPI: date = forecast.datetime ||
\* new Date(forecast.time * 1000).toISOString(); the latter throws a
\* RangeError when forecast.time is undefined (Invalid Date).
convertForecastToWeatherAPI(forecast, type) ==
  IF forecast.datetime # undefined
  THEN [threw |-> FALSE, value |-> [date |-> forecast.datetime, type |-> type]]
  ELSE IF forecast.time # undefined
  THEN [threw |-> FALSE, value |-> [date |-> forecast.time * 1000, type |-> type]]
  ELSE [threw |-> TRUE, value |-> [date |-> undefined, type |-> type]]

\* for-of over a list with a conversion that may throw: the records pushed
\* before the first throw stay in the result array.
convertEach(entries, type) ==
  LET throwing == { i \in 1..Len(entries) :
                      convertForecastToWeatherAPI(entries[i], type).threw }
      stop == IF throwing = {} THEN Len(entries) + 1
              ELSE CHOOSE i \in throwing : \A j \in throwing : i <= j
  IN [forecasts |-> [i \in 1..(stop - 1) |->
                       convertForecastToWeatherAPI(entries[i], type).value],
      threw |-> throwing # {}]

\* Array.prototype.slice(0, n)
slice(s, n) == SubSeq(s, 1, Min(n, Len(s)))

\* Array.prototype.filter(f => new Date(f.date).getTime() >= startTime)
filterFrom(forecasts, startTime) ==
  LET onOrAfter(f) == f.date >= startTime
  IN SelectSeq(forecasts, onOrAfter)

\* Forecast horizon of the facade: 72 hourly and 10 daily entries.
HourlyLimit == 72
DailyLimit == 10
\* 100 km radius for forecasts.
maxDistance == 100000

\* The try block of getForecasts: convert, then filter or truncate.
forecastsOf(data, type, options) ==
  LET conv == IF type = "point"
              THEN convertEach(slice(data.hourly, HourlyLimit), "point")
              ELSE IF type = "daily"
              THEN convertEach(slice(data.daily, DailyLimit), "daily")
              ELSE [forecasts |-> <<>>, threw |-> FALSE]
      forecasts == conv.forecasts
  IN IF conv.threw THEN forecasts
     ELSE IF options.startDate # undefined
     THEN filterFrom(forecasts, options.startDate)
     ELSE IF Truthy(options.maxCount) /\ Len(forecasts) > options.maxCount
     THEN slice(forecasts, options.maxCount)
     ELSE forecasts

\* weatherProvider.methods.getForecasts
getForecasts(position, type, options) ==
  LET stationPos == getStationLocation
      distance == calculateDistance(position, stationPos)
  IN IF distance > maxDistance THEN <<>>
     ELSE IF latestForecastData = null THEN <<>>
     ELSE forecastsOf(latestForecastData[1], type, options)

(***************************************************************************)
(* The observation cache: a JavaScript Map, which iterates in insertion    *)
(* order and keeps a key's place when the key is set again.                *)
(***************************************************************************)
mapHas(m, k) == \E i \in 1..Len(m) : m[i].type = k

mapGet(m, k) ==
  IF mapHas(m, k)
  THEN <<(m[CHOOSE i \in 1..Len(m) : m[i].type = k]).data>>
  ELSE null

\* A map that adds an entry on every set.
mapSetAppend(m, k, v) == Append(m, [type |-> k, data |-> v])

mapSet(m, k, v) ==
  IF mapHas(m, k)
  THEN [i \in 1..Len(m) |-> IF m[i].type = k THEN [type |-> k, data |-> v] ELSE m[i]]
  ELSE Append(m, [type |-> k, data |-> v])

\* cacheObservationData: { ...data, timestamp: new Date().toISOString() }
cacheObservationData(m, type, data, clock) ==
  mapSet(m, type, [timestamp |-> clock] @@ data)

\* convertObservationToWeatherAPI: date = data.utcDate ||
\* new Date(data.time ? data.time * 1000 : Date.now()).toISOString().
convertObservationToWeatherAPI(observationType, data, clock) ==
  [date |-> IF "utcDate" \in DOMAIN data THEN data.utcDate
            ELSE IF "time" \in DOMAIN data /\ Truthy(data.time) THEN data.time * 1000
            ELSE clock,
   type |-> "observation",
   description |-> observationType]

\* The for-of loop of getObservations over the Map.
observationsOf(m, clock) ==
  [i \in 1..Len(m) |-> convertObservationToWeatherAPI(m[i].type, m[i].data, clock)]

\* A getObservations that applies the forecast distance gate to the request.
getObservationsGated(position, options) ==
  LET observations == IF calculateDistance(position, getStationLocation) > maxDistance
                      THEN <<>>
                      ELSE observationsOf(latestObservations, now)
  IN IF Truthy(options.maxCount) /\ Len(observations) > options.maxCount
     THEN slice(observations, options.maxCount)
     ELSE observations

\* weatherProvider.methods.getObservations
getObservations(position, options) ==
  LET observations == observationsOf(latestObservations, now)
  IN IF Truthy(options.maxCount) /\ Len(observations) > options.maxCount
     THEN slice(observations, options.maxCount)
     ELSE observations

\* 30 * 60 * 1000: how long a lightning warning lasts, milliseconds.
WarningMs == 30 * 60 * 1000

\* A getWarnings whose warning window is closed at its end (<= instead of <).
getWarningsInclusive(position) ==
  LET lightningData == mapGet(latestObservations, "tempest")
  IN IF lightningData # null /\ lightningData[1].lightningStrikeCount > 0
        /\ now <= lightningData[1].timeEpoch * 1000 + WarningMs
     THEN << [startTime |-> lightningData[1].timeEpoch * 1000,
              endTime |-> lightningData[1].timeEpoch * 1000 + WarningMs,
              details |-> [strikes |-> lightningData[1].lightningStrikeCount,
                           distance |-> lightningData[1].lightningStrikeAvgDistance],
              source |-> "WeatherFlow Station",
              type |-> "lightning"] >>
     ELSE <<>>

\* weatherProvider.methods.getWarnings
getWarnings(position) ==
  LET lightningData == mapGet(latestObservations, "tempest")
  IN IF lightningData # null /\ lightningData[1].lightningStrikeCount > 0
     THEN LET lastStrikeTime == lightningData[1].timeEpoch * 1000
              warningEndTime == lastStrikeTime + WarningMs
          IN IF now < warningEndTime
             THEN << [startTime |-> lastStrikeTime,
                      endTime |-> warningEndTime,
                      details |-> [strikes |-> lightningData[1].lightningStrikeCount,
                                   distance |-> lightningData[1].lightningStrikeAvgDistance],
                      source |-> "WeatherFlow Station",
                      type |-> "lightning"] >>
             ELSE <<>>
     ELSE <<>>

(***************************************************************************)
(* Unit conversion.  A measurement is a fixed-point number with two         *)
(* decimals, kept as the integer count of hundredths: 273.15 is 27315,      *)
(* Math.PI is 314.  Counts and epochs are whole numbers.  A value that is   *)
(* not a number is one of the markers below.                                *)
(***************************************************************************)
NaN == -2        \* the result of arithmetic on undefined
NullValue == -3  \* the JavaScript value null where a number is expected

\* An arithmetic result: NaN when an operand is not a number.
IsNumber(v) == v \notin {undefined, NaN, NullValue}

\* value + k, value * k, value / k of JavaScript on the fixed-point numbers
\* (null counts as 0 in arithmetic, undefined and NaN give NaN).
plus(v, k) == IF v \in {undefined, NaN} THEN NaN ELSE IF v = NullValue THEN k ELSE v + k
times(v, k) == IF v \in {undefined, NaN} THEN NaN ELSE IF v = NullValue THEN 0 ELSE v * k
over(v, k) == IF v \in {undefined, NaN} THEN NaN ELSE IF v = NullValue THEN 0 ELSE v \div k

\* 273.15 and Math.PI in hundredths.
KelvinOffset == 27315
PI == 314

\* value * (Math.PI / 180), rounded to the nearest hundredth.
degToRad(deg) ==
  IF deg \in {undefined, NaN} THEN NaN
  ELSE IF deg = NullValue THEN 0
  ELSE (2 * deg * PI + 18000) \div 36000

\* [a-z0-9] of the snakeToCamel pattern.
LowerOrDigit ==
  { "a", "b", "c", "d", "e", "f", "g", "h", "i", "j", "k", "l", "m",
    "n", "o", "p", "q", "r", "s", "t", "u", "v", "w", "x", "y", "z",
    "0", "1", "2", "3", "4", "5", "6", "7", "8", "9" }

\* String.prototype.toUpperCase on one character of [a-z0-9].
toUpperCase ==
  "a" :> "A" @@ "b" :> "B" @@ "c" :> "C" @@ "d" :> "D" @@ "e" :> "E" @@
  "f" :> "F" @@ "g" :> "G" @@ "h" :> "H" @@ "i" :> "I" @@ "j" :> "J" @@
  "k" :> "K" @@ "l" :> "L" @@ "m" :> "M" @@ "n" :> "N" @@ "o" :> "O" @@
  "p" :> "P" @@ "q" :> "Q" @@ "r" :> "R" @@ "s" :> "S" @@ "t" :> "T" @@
  "u" :> "U" @@ "v" :> "V" @@ "w" :> "W" @@ "x" :> "X" @@ "y" :> "Y" @@
  "z" :> "Z"

charAt(str, i) == SubSeq(str, i, i)

\* The first match of /_([a-z0-9])/ in str, 0 when there is none.
firstMatch(str) ==
  LET matches == { i \in 1..(Len(str) - 1) :
                     charAt(str, i) = "_" /\ charAt(str, i + 1) \in LowerOrDigit }
  IN IF matches = {} THEN 0 ELSE CHOOSE i \in matches : \A j \in matches : i <= j

\* The replacement without the g flag: only the first match is replaced.
snakeToCamelFirst(str) ==
  LET i == firstMatch(str)
      letter == charAt(str, i + 1)
  IN IF i = 0 THEN str
     ELSE SubSeq(str, 1, i - 1)
          \o (IF letter \in DOMAIN toUpperCase THEN toUpperCase[letter] ELSE letter)
          \o SubSeq(str, i + 2, Len(str))

\* snakeToCamel: str.replace(/_([a-z0-9])/g, letter => letter.toUpperCase()).
\* A replacement leaves an upper-case letter or a digit behind, so no new
\* match arises to the left of the next one.
RECURSIVE snakeToCamel(_)
snakeToCamel(str) ==
  LET i == firstMatch(str)
      letter == charAt(str, i + 1)
  IN IF i = 0 THEN str
     ELSE snakeToCamel(SubSeq(str, 1, i - 1)
                       \o (IF letter \in DOMAIN toUpperCase THEN toUpperCase[letter] ELSE letter)
                       \o SubSeq(str, i + 2, Len(str)))

\* units: null of a ConvertedValue.
noUnits == "null"

ConvertedValue(value, units) == [value |-> value, units |-> units]

\* convertToSignalKUnits
convertToSignalKUnits(key, value) ==
  IF value = NullValue \/ value = undefined THEN ConvertedValue(value, noUnits)
  ELSE LET normalizedKey == snakeToCamel(key)
       IN CASE normalizedKey \in {"airTemperature", "feelsLike", "heatIndex", "windChill",
                                  "dewPoint", "wetBulbTemperature",
                                  "wetBulbGlobeTemperature"} ->
                 ConvertedValue(plus(value, KelvinOffset), "K")
            [] normalizedKey \in {"stationPressure", "pressure"} ->
                 ConvertedValue(times(value, 100), "Pa")
            [] normalizedKey = "windDirection" ->
                 ConvertedValue(degToRad(value), "rad")
            [] normalizedKey \in {"lightningStrikeAvgDistance", "strikeLastDist"} ->
                 ConvertedValue(times(value, 1000), "m")
            [] normalizedKey = "reportInterval" ->
                 ConvertedValue(times(value, 60), "s")
            [] normalizedKey \in {"rainAccumulated", "rainAccumulatedFinal",
                                  "localDailyRainAccumulation",
                                  "localDailyRainAccumulationFinal", "precipTotal1h",
                                  "precipAccumLocalYesterday",
                                  "precipAccumLocalYesterdayFinal"} ->
                 ConvertedValue(over(value, 1000), "m")
            [] normalizedKey = "relativeHumidity" ->
                 ConvertedValue(over(value, 100), "ratio")
            [] normalizedKey \in {"windLull", "windAvg", "windGust", "windSpeed"} ->
                 ConvertedValue(value, "m/s")
            [] normalizedKey \in {"windSampleInterval", "timeEpoch", "strikeLastEpoch",
                                  "precipMinutesLocalDay", "precipMinutesLocalYesterday"} ->
                 ConvertedValue(value, "s")
            [] normalizedKey = "illuminance" -> ConvertedValue(value, "lux")
            [] normalizedKey = "solarRadiation" -> ConvertedValue(value, "W/m2")
            [] normalizedKey = "battery" -> ConvertedValue(value, "V")
            [] normalizedKey = "airDensity" -> ConvertedValue(value, "kg/m3")
            [] normalizedKey = "deltaT" -> ConvertedValue(value, "K")
            [] normalizedKey \in {"uvIndex", "precipitationType", "precipType",
                                  "lightningStrikeCount", "strikeCount1h", "strikeCount3h",
                                  "precipitationAnalysisType", "deviceId", "firmwareRevision",
                                  "precipAnalysisTypeYesterday", "type", "source",
                                  "statusCode", "statusMessage", "id"} ->
                 ConvertedValue(value, noUnits)
            [] normalizedKey \in {"serialNumber", "hubSn", "pressureTrend"} ->
                 ConvertedValue(value, noUnits)
            [] OTHER -> ConvertedValue(value, noUnits)

(***************************************************************************)
(* The wind calculator (windCalculations.ts).  Angles in degrees and in     *)
(* radians are hundredths (Math.PI is 314), taken at the four quadrant      *)
(* bearings where Math.cos and Math.sin are 0, 1 or -1 (their residues of   *)
(* about 1e-16 there are left out).  Speeds are whole numbers of 1/900 m/s, *)
(* so that 0.01 m/s (9) and 0.1 km/h (25) are both whole; temperatures are  *)
(* hundredths of a degree, humidity hundredths of a percent.                *)
(***************************************************************************)
\* rad * 180 / Math.PI, rounded to the nearest hundredth.
radToDeg(rad) == (2 * rad * 18000 + PI) \div (2 * PI)

\* normalizeAngle: into [-PI, PI] by steps of 2 * PI.
normalizeAngle(angle) ==
  IF angle > PI
  THEN angle - 2 * PI * (CHOOSE k \in 1..4 : angle - 2 * PI * k <= PI
                                             /\ angle - 2 * PI * (k - 1) > PI)
  ELSE IF angle < -PI
  THEN angle + 2 * PI * (CHOOSE k \in 1..4 : angle + 2 * PI * k >= -PI
                                             /\ angle + 2 * PI * (k - 1) < -PI)
  ELSE angle

\* Math.cos and Math.sin at a quadrant bearing in [0, 2 * PI).
cos(rad) ==
  CASE rad = 0 -> 1 [] rad = 157 -> 0 [] rad = 314 -> -1 [] rad = 471 -> 0

sin(rad) ==
  CASE rad = 0 -> 0 [] rad = 157 -> 1 [] rad = 314 -> 0 [] rad = 471 -> -1

\* Math.sqrt(n), rounded to the nearest whole number: Newton's iteration
\* from an estimate above the root, then the nearest of the neighbours.
sqrt(n, estimate) ==
  LET r1 == (estimate + n \div estimate) \div 2
      r2 == (r1 + n \div r1) \div 2
      r3 == (r2 + n \div r2) \div 2
      r4 == (r3 + n \div r3) \div 2
  IN CHOOSE r \in (r4 - 1)..(r4 + 1) :
       (2 * r - 1) * (2 * r - 1) < 4 * n /\ 4 * n <= (2 * r + 1) * (2 * r + 1)

\* Math.sqrt(x * x + y * y)
hypot(x, y) ==
  IF y = 0 THEN Abs(x)
  ELSE IF x = 0 THEN Abs(y)
  ELSE sqrt(x * x + y * y, Abs(x) + Abs(y))

\* Math.atan2(y, x) in hundredths of a radian; atan2 of the zero vector is 0.
atan2(y, x) ==
  CASE y = 0 /\ x >= 0 -> 0
    [] y = 0 /\ x < 0 -> PI
    [] x = 0 /\ y > 0 -> 157
    [] x = 0 /\ y < 0 -> -157
    [] x # 0 /\ y # 0 /\ Abs(x) = Abs(y) ->
         (IF y > 0 THEN 1 ELSE -1) * (IF x > 0 THEN 79 ELSE 236)
    [] x # 0 /\ y # 0 /\ Abs(x) = 1200 /\ Abs(y) = 1250 ->
         (IF y > 0 THEN 1 ELSE -1) * (IF x > 0 THEN 81 ELSE 234)
    [] x # 0 /\ y # 0 /\ Abs(x) = 1250 /\ Abs(y) = 1200 ->
         (IF y > 0 THEN 1 ELSE -1) * (IF x > 0 THEN 76 ELSE 238)

\* calculateApparentWind
calculateApparentWind(nav, windData) ==
  LET headingTrueDeg == radToDeg(nav.headingTrue)
      headingMagneticDeg == radToDeg(nav.headingMagnetic)
      apparentTrueDeg == IF IsNumber(windData.windDirection)
                         THEN (headingTrueDeg + windData.windDirection) % 36000
                         ELSE NaN
      apparentMagneticDeg == IF IsNumber(windData.windDirection)
                             THEN (headingMagneticDeg + windData.windDirection) % 36000
                             ELSE NaN
  IN [windSpeed |-> windData.windSpeed,
      windAngleRelative |-> windData.windDirection,
      windAngleRelativeRad |-> degToRad(windData.windDirection),
      apparentTrueDeg |-> apparentTrueDeg,
      apparentMagneticDeg |-> apparentMagneticDeg,
      apparentTrueRad |-> degToRad(apparentTrueDeg),
      apparentMagneticRad |-> degToRad(apparentMagneticDeg),
      airTemperature |-> IF Truthy(windData.airTemperature) THEN windData.airTemperature
                         ELSE nav.airTemp]

\* The wind-chill polynomial 13.12 + 0.6215 T - 11.37 V^0.16 + 0.3965 T V^0.16
\* plus 273.15, evaluated for the temperatures and true wind speeds of the
\* model (hundredths of a kelvin).
windChillK(airTempC, trueWindSpeed) ==
  LET k == <<airTempC, trueWindSpeed>>
  IN CASE
          k = <<0, 1250>> -> 27156
       [] k = <<0, 1733>> -> 27077
       [] k = <<0, 1768>> -> 27072
       [] k = <<0, 2450>> -> 26989
       [] k = <<0, 2500>> -> 26984
       [] k = <<990, 1250>> -> 28279
       [] k = <<990, 1733>> -> 28227
       [] k = <<990, 1768>> -> 28224
       [] k = <<990, 2450>> -> 28170
       [] k = <<990, 2500>> -> 28166
       [] k = <<1000, 1250>> -> 28291
       [] k = <<1000, 1733>> -> 28239
       [] k = <<1000, 1768>> -> 28236
       [] k = <<1000, 2450>> -> 28182
       [] k = <<1000, 2500>> -> 28178

\* The Rothfusz regression on T in Fahrenheit and R in percent, converted to
\* kelvin, evaluated for the temperatures and humidities of the model.
heatIndexK(airTempC, humidity) ==
  LET k == <<airTempC, humidity>>
  IN CASE
          k = <<2667, 4000>> -> 29978
       [] k = <<2667, 8000>> -> 30217
       [] k = <<2670, 4000>> -> 29980
       [] k = <<2670, 8000>> -> 30224
       [] k = <<2700, 4000>> -> 30001
       [] k = <<2700, 8000>> -> 30289
       [] k = <<3000, 4000>> -> 30284
       [] k = <<3000, 8000>> -> 31082

\* A conversion of the true wind speed that leaves it in m/s.
windSpeedKmhUnconverted(trueWindSpeed) == trueWindSpeed

\* windSpeedKmh = trueWindSpeed * 3.6, in thousandths of a km/h.
windSpeedKmh(trueWindSpeed) == trueWindSpeed * 4

\* A heat-index test with a strict bound on the humidity.
heatIndexAppliesStrict(airTempC, humidity) ==
  airTempC * 9 + 3200 * 5 >= 8000 * 5 /\ humidity > 4000

\* airTempF >= 80 && this.humidity >= 40, with airTempF = airTempC * 9 / 5 + 32
\* (both sides of the first comparison times 5).
heatIndexApplies(airTempC, humidity) ==
  airTempC * 9 + 3200 * 5 >= 8000 * 5 /\ humidity >= 4000

\* A compass bearing that keeps the sign of atan2.
toCompassBearingSigned(radians) == radians

\* toCompassBearing
toCompassBearing(radians) == IF radians < 0 THEN radians + 2 * PI ELSE radians


\* calculateDerivedWindValues (anchorSet is never set: the live heading and
\* speed over ground are the effective ones).  A sample whose speed or
\* direction is not a number gives NaN wherever it enters the arithmetic.
calculateDerivedWindValues(nav, apparentWindData) ==
  LET isSample == IsNumber(apparentWindData.windSpeed)
                  /\ IsNumber(apparentWindData.apparentTrueRad)
      effectiveHeadingTrueRad == nav.headingTrue
      effectiveHeadingMagneticRad == nav.headingMagnetic
      angleApparent ==
        IF ~IsNumber(apparentWindData.apparentTrueRad) THEN NaN
        ELSE normalizeAngle(IF Truthy(apparentWindData.windAngleRelativeRad)
                            THEN apparentWindData.windAngleRelativeRad
                            ELSE apparentWindData.apparentTrueRad
                                 - effectiveHeadingTrueRad)
      effectiveSOG == nav.speedOverGround
      Wx == apparentWindData.windSpeed * cos(apparentWindData.apparentTrueRad)
            + effectiveSOG * cos(effectiveHeadingTrueRad)
      Wy == apparentWindData.windSpeed * sin(apparentWindData.apparentTrueRad)
            + effectiveSOG * sin(effectiveHeadingTrueRad)
      trueWindSpeed == IF isSample THEN hypot(Wx, Wy) ELSE NaN
      trueWindDirTrueRad == IF isSample THEN toCompassBearing(atan2(Wy, Wx)) ELSE NaN
      WxMag == apparentWindData.windSpeed * cos(apparentWindData.apparentMagneticRad)
               + effectiveSOG * cos(effectiveHeadingMagneticRad)
      WyMag == apparentWindData.windSpeed * sin(apparentWindData.apparentMagneticRad)
               + effectiveSOG * sin(effectiveHeadingMagneticRad)
      trueWindDirMagRad == IF isSample THEN toCompassBearing(atan2(WyMag, WxMag)) ELSE NaN
      airTempC == nav.airTemp
      windChill == IF airTempC <= 1000 /\ isSample /\ windSpeedKmh(trueWindSpeed) > 4800
                   THEN windChillK(airTempC, trueWindSpeed)
                   ELSE NullValue
      heatIndex == IF heatIndexApplies(airTempC, nav.humidity)
                   THEN heatIndexK(airTempC, nav.humidity)
                   ELSE NullValue
      feelsLike == IF windChill # NullValue /\ airTempC <= 1000 THEN windChill
                   ELSE IF heatIndex # NullValue /\ airTempC >= 2700 THEN heatIndex
                   ELSE nav.airTemp
  IN [speedApparent |-> apparentWindData.windSpeed,
      angleApparent |-> angleApparent,
      angleTrueGround |-> IF isSample
                          THEN normalizeAngle(trueWindDirTrueRad - effectiveHeadingTrueRad)
                          ELSE NaN,
      angleTrueWater |-> IF isSample
                         THEN normalizeAngle(trueWindDirMagRad - effectiveHeadingMagneticRad)
                         ELSE NaN,
      directionTrue |-> trueWindDirTrueRad,
      directionMagnetic |-> trueWindDirMagRad,
      speedTrue |-> trueWindSpeed,
      windChill |-> windChill,
      heatIndex |-> heatIndex,
      feelsLike |-> feelsLike]

(***************************************************************************)
(* Datagrams.  The positional arrays keep the source's zero-based indices  *)
(* through at(); the cached records keep the fields the facade reads.      *)
(***************************************************************************)
\* array[i] of JavaScript: undefined past the end of the array.
at(array, i) == IF i + 1 \in 1..Len(array) THEN array[i + 1] ELSE undefined

\* data.member is present (a member that is absent reads as undefined).
Has(data, name) == name \in DOMAIN data

\* A rapid_wind datagram: epoch, wind speed, wind direction in degrees.
RapidWind(t, windSpeed, windDirection) ==
  [type |-> "rapid_wind", ob |-> <<t, windSpeed, windDirection>>]

RapidWindMsg(t) == RapidWind(t, 1250, 18000)

\* An obs_st datagram with the 22 positions of the Tempest layout.
TempestObs(t, strikes, airTemperature, relativeHumidity) ==
  [type |-> "obs_st",
   obs |-> << <<t, 1200, 1250, 1250, 18000, 3, 101300, airTemperature,
               relativeHumidity, 1000, 300, 200, 0, 0,
               700, strikes, 260, 1, 0, 0, 0, 0>> >>]

TempestMsg(t, strikes) == TempestObs(t, strikes, 2200, 5500)

AirMsg(t) ==
  [type |-> "obs_air", obs |-> << <<t, 101300, 2200, 5500, 0, 0, 300, 1>> >>]

RainMsg(t) == [type |-> "evt_precip", evt |-> <<t>>]

StrikeMsg(t) == [type |-> "evt_strike", evt |-> <<t, 700, 3848>>]

HubMsg(t) ==
  [type |-> "hub_status", serial_number |-> "HB-00000001", timestamp |-> t,
   firmware_revision |-> 35, uptime |-> 1670133, rssi |-> -62,
   reset_flags |-> "BOR,PIN,POR", seq |-> 48,
   radio_stats |-> <<25, 1, 0, 3, 2839>>]

DeviceMsg(t) ==
  [type |-> "device_status", serial_number |-> "ST-00000512", timestamp |-> t,
   hub_sn |-> "HB-00000001", uptime |-> 2189, voltage |-> 350,
   firmware_revision |-> 17, rssi |-> -17, hub_rssi |-> -87,
   sensor_status |-> 0, debug |-> 0]

\* The same datagram with its first positional array cut to n entries.
Shortened(data, n) ==
  IF Has(data, "obs") THEN [data EXCEPT !.obs = <<SubSeq(data.obs[1], 1, n)>>]
  ELSE IF Has(data, "ob") THEN [data EXCEPT !.ob = SubSeq(data.ob, 1, n)]
  ELSE [data EXCEPT !.evt = SubSeq(data.evt, 1, n)]

\* The same datagram without one of its members.
Without(data, name) == [f \in DOMAIN data \ {name} |-> data[f]]

\* Bytes that JSON.parse rejects.
Unparsable == [malformed |-> TRUE]

\* A delta handed to app.handleMessage: one path, one value, the units of its
\* meta entry ("null" when the delta carries no meta).  A value that is an
\* object is ObjectValue, its members in `members`.
ObjectValue == -4
Delta(path, value, units) ==
  [path |-> path, value |-> value, units |-> units, members |-> <<>>]
ObjectDelta(path, object) ==
  [path |-> path, value |-> ObjectValue, units |-> noUnits, members |-> <<object>>]

\* What a handler did: the cache after it, the deltas it handed over in order,
\* and whether it ended by throwing.
Outcome(cache, deltas, threw) == [cache |-> cache, published |-> deltas, threw |-> threw]

\* new Date(timeEpoch * 1000).toISOString() throws on an invalid date.
toISOStringThrows(timeEpoch) == ~IsNumber(timeEpoch)

\* sendSignalKDelta
sendSignalKDelta(basePath, key, value) ==
  LET convertedValue == convertToSignalKUnits(key, value)
      camelKey == snakeToCamel(key)
  IN Delta(basePath \o "." \o camelKey, convertedValue.value, convertedValue.units)

\* WindCalculations.createWindDeltas
createWindDeltas(derivedValues) ==
  (IF derivedValues.speedApparent # undefined
   THEN <<Delta("environment.wind.speedApparent", derivedValues.speedApparent, noUnits)>>
   ELSE <<>>)
  \o <<Delta("environment.wind.angleApparent", derivedValues.angleApparent, noUnits),
       Delta("environment.wind.angleTrueGround", derivedValues.angleTrueGround, noUnits),
       Delta("environment.wind.angleTrueWater", derivedValues.angleTrueWater, noUnits),
       Delta("environment.wind.directionTrue", derivedValues.directionTrue, noUnits),
       Delta("environment.wind.directionMagnetic", derivedValues.directionMagnetic,
             noUnits),
       Delta("environment.wind.speedTrue", derivedValues.speedTrue, noUnits)>>
  \o (IF derivedValues.windChill # NullValue
      THEN <<Delta("environment.outside.tempest.observations.windChill",
                   derivedValues.windChill, noUnits)>>
      ELSE <<>>)
  \o (IF derivedValues.heatIndex # NullValue
      THEN <<Delta("environment.outside.tempest.observations.heatIndex",
                   derivedValues.heatIndex, noUnits)>>
      ELSE <<>>)
  \o <<Delta("environment.outside.tempest.observations.feelsLike",
             derivedValues.feelsLike, noUnits)>>

\* calculateAndPublishWind: the deltas it hands over (wc is state.windCalculations).
calculateAndPublishWind(wc, windData) ==
  IF wc = null THEN <<>>
  ELSE createWindDeltas(
         calculateDerivedWindValues(wc[1], calculateApparentWind(wc[1], windData)))

\* The wind deltas a wind-bearing handler appends when the calculator is on.
windDeltasIfEnabled(cfg, wc, windData) ==
  IF cfg.enableWindCalculations /\ wc # null THEN calculateAndPublishWind(wc, windData)
  ELSE <<>>

\* processRapidWind: the record cached under 'rapidWind'.
rapidWindData(data) ==
  [timeEpoch |-> at(data.ob, 0),
   windSpeed |-> at(data.ob, 1),
   utcDate |-> at(data.ob, 0) * 1000]

\* processTempestObservation: the record cached under 'tempest'.
tempestData(data) ==
  LET obs == at(data.obs, 0)
  IN [timeEpoch |-> at(obs, 0),
      windAvg |-> at(obs, 2),
      stationPressure |-> times(at(obs, 6), 100),
      lightningStrikeAvgDistance |-> times(at(obs, 14), 1000),
      lightningStrikeCount |-> at(obs, 15),
      utcDate |-> at(obs, 0) * 1000]

\* processAirObservation: the record cached under 'air'.
airData(data) ==
  LET obs == at(data.obs, 0)
  IN [timeEpoch |-> at(obs, 0),
      stationPressure |-> times(at(obs, 1), 100),
      lightningStrikeCount |-> at(obs, 4),
      utcDate |-> at(obs, 0) * 1000]

\* The keys of ProcessedTempestData and ProcessedAirData, in layout order.
TempestKeys ==
  <<"timeEpoch", "windLull", "windAvg", "windGust", "windDirection",
    "windSampleInterval", "stationPressure", "airTemperature", "relativeHumidity",
    "illuminance", "uvIndex", "solarRadiation", "rainAccumulated",
    "precipitationType", "lightningStrikeAvgDistance", "lightningStrikeCount",
    "battery", "reportInterval", "localDailyRainAccumulation",
    "rainAccumulatedFinal", "localDailyRainAccumulationFinal",
    "precipitationAnalysisType">>

AirKeys ==
  <<"timeEpoch", "stationPressure", "airTemperature", "relativeHumidity",
    "lightningStrikeCount", "lightningStrikeAvgDistance", "battery", "reportInterval">>

\* processRapidWind
processRapidWind(m, data, cfg, wc, clock) ==
  IF ~Has(data, "ob") THEN Outcome(m, <<>>, FALSE)
  ELSE IF toISOStringThrows(at(data.ob, 0)) THEN Outcome(m, <<>>, TRUE)
  ELSE Outcome(
         cacheObservationData(m, "rapidWind", rapidWindData(data), clock),
         <<sendSignalKDelta("environment.outside.rapidWind", "timeEpoch", at(data.ob, 0)),
           sendSignalKDelta("environment.outside.rapidWind", "windSpeed", at(data.ob, 1)),
           sendSignalKDelta("environment.outside.rapidWind", "windDirection",
                            at(data.ob, 2))>>
         \o windDeltasIfEnabled(cfg, wc,
              [windSpeed |-> at(data.ob, 1), windDirection |-> at(data.ob, 2),
               airTemperature |-> IF wc = null THEN undefined ELSE wc[1].airTemp]),
         FALSE)

\* processTempestObservation
processTempestObservation(m, data, cfg, wc, clock) ==
  IF ~Has(data, "obs") \/ data.obs = <<>> THEN Outcome(m, <<>>, FALSE)
  ELSE LET obs == at(data.obs, 0)
       IN IF toISOStringThrows(at(obs, 0)) THEN Outcome(m, <<>>, TRUE)
          ELSE Outcome(
                 cacheObservationData(m, "tempest", tempestData(data), clock),
                 [i \in 1..Len(TempestKeys) |->
                    sendSignalKDelta("environment.outside.tempest.observations",
                                     TempestKeys[i], at(obs, i - 1))]
                 \o windDeltasIfEnabled(cfg, wc,
                      [windSpeed |-> at(obs, 2), windDirection |-> at(obs, 4),
                       airTemperature |-> at(obs, 7)]),
                 FALSE)

\* processAirObservation
processAirObservation(m, data, clock) ==
  IF ~Has(data, "obs") \/ data.obs = <<>> THEN Outcome(m, <<>>, FALSE)
  ELSE LET obs == at(data.obs, 0)
       IN IF toISOStringThrows(at(obs, 0)) THEN Outcome(m, <<>>, TRUE)
          ELSE Outcome(
                 cacheObservationData(m, "air", airData(data), clock),
                 [i \in 1..Len(AirKeys) |->
                    sendSignalKDelta("environment.inside.air.observations",
                                     AirKeys[i], at(obs, i - 1))],
                 FALSE)

\* processRainEvent
processRainEvent(m, data) ==
  IF ~Has(data, "evt") THEN Outcome(m, <<>>, FALSE)
  ELSE IF toISOStringThrows(at(data.evt, 0)) THEN Outcome(m, <<>>, TRUE)
  ELSE Outcome(m,
               <<sendSignalKDelta("environment.outside.rain.observations", "timeEpoch",
                                  at(data.evt, 0))>>,
               FALSE)

\* processLightningEvent
processLightningEvent(m, data) ==
  IF ~Has(data, "evt") THEN Outcome(m, <<>>, FALSE)
  ELSE IF toISOStringThrows(at(data.evt, 0)) THEN Outcome(m, <<>>, TRUE)
  ELSE Outcome(m,
               <<sendSignalKDelta("environment.outside.lightning.observations",
                                  "timeEpoch", at(data.evt, 0)),
                 sendSignalKDelta("environment.outside.lightning.observations",
                                  "lightningStrikeAvgDistance", at(data.evt, 1)),
                 sendSignalKDelta("environment.outside.lightning.observations",
                                  "energy", at(data.evt, 2))>>,
               FALSE)

\* data.member, undefined when the member is absent.
member(data, name) == IF Has(data, name) THEN data[name] ELSE undefined

\* array[i] || 0
orZero(v) == IF Truthy(v) THEN v ELSE 0

\* processHubStatus: one delta whose value is the whole status object (the
\* path ends in config.stationId).  Reading data.radio_stats[0] of an absent
\* radio_stats throws.
processHubStatus(m, data) ==
  IF ~Has(data, "serial_number") \/ ~Has(data, "timestamp") \/ ~Truthy(data.timestamp)
  THEN Outcome(m, <<>>, FALSE)
  ELSE IF ~Has(data, "radio_stats") THEN Outcome(m, <<>>, TRUE)
  ELSE Outcome(m,
               <<ObjectDelta("network.weatherflow.hubstatus",
                   [serialNumber |-> data.serial_number,
                    firmwareRevision |-> member(data, "firmware_revision"),
                    uptime |-> member(data, "uptime"),
                    rssi |-> member(data, "rssi"),
                    resetFlags |-> member(data, "reset_flags"),
                    sequence |-> member(data, "seq"),
                    radioStats |->
                      [version |-> orZero(at(data.radio_stats, 0)),
                       rebootCount |-> orZero(at(data.radio_stats, 1)),
                       busErrorCount |-> orZero(at(data.radio_stats, 2)),
                       radioStatus |-> orZero(at(data.radio_stats, 3)),
                       networkId |-> orZero(at(data.radio_stats, 4))]])>>,
               FALSE)

\* processDeviceStatus: one delta whose value is the whole status object.
processDeviceStatus(m, data) ==
  IF ~Has(data, "serial_number") \/ ~Has(data, "timestamp") \/ ~Truthy(data.timestamp)
  THEN Outcome(m, <<>>, FALSE)
  ELSE Outcome(m,
               <<ObjectDelta("network.weatherflow.devicestatus." \o data.serial_number,
                   [serialNumber |-> data.serial_number,
                    hubSerialNumber |-> member(data, "hub_sn"),
                    uptime |-> member(data, "uptime"),
                    voltage |-> member(data, "voltage"),
                    firmwareRevision |-> member(data, "firmware_revision"),
                    rssi |-> member(data, "rssi"),
                    hubRssi |-> member(data, "hub_rssi"),
                    sensorStatus |-> member(data, "sensor_status"),
                    debugEnabled |-> member(data, "debug") = 1])>>,
               FALSE)

\* processWeatherFlowMessage: a datagram without a type is dropped, a type the
\* switch does not list is logged.
processWeatherFlowMessage(m, data, cfg, wc, clock) ==
  IF ~Has(data, "type") THEN Outcome(m, <<>>, FALSE)
  ELSE CASE data.type = "rapid_wind" -> processRapidWind(m, data, cfg, wc, clock)
         [] data.type = "obs_st" -> processTempestObservation(m, data, cfg, wc, clock)
         [] data.type = "obs_air" -> processAirObservation(m, data, clock)
         [] data.type = "evt_precip" -> processRainEvent(m, data)
         [] data.type = "evt_strike" -> processLightningEvent(m, data)
         [] data.type = "hub_status" -> processHubStatus(m, data)
         [] data.type = "device_status" -> processDeviceStatus(m, data)
         [] OTHER -> Outcome(m, <<>>, FALSE)

\* The body of the try block of udpServer.on('message'): JSON.parse, which
\* throws on bytes that are not JSON, then processWeatherFlowMessage.
tryBlock(m, msg, cfg, wc, clock) ==
  IF Has(msg, "malformed") THEN Outcome(m, <<>>, TRUE)
  ELSE processWeatherFlowMessage(m, msg, cfg, wc, clock)

\* A callback without the try statement: what the body throws leaves it.
escapesUncaught(outcome) == outcome.threw

\* The catch clause of udpServer.on('message') logs whatever the try block
\* threw: nothing leaves the callback.
escapes(outcome) == FALSE

(***************************************************************************)
(* The streaming socket.  A parsed frame is the list of its members in     *)
(* insertion order (the order Object.entries follows); a member is a       *)
(* number, a string, an object or an array.                                *)
(***************************************************************************)
\* The value of a member that is a string; its text is in `members`.
StringValue == -5

Field(key, value) == [key |-> key, value |-> value, members |-> <<>>, isArray |-> FALSE]
TextField(key, text) ==
  [key |-> key, value |-> StringValue, members |-> <<text>>, isArray |-> FALSE]
ObjectField(key, fields) ==
  [key |-> key, value |-> ObjectValue, members |-> fields, isArray |-> FALSE]
ArrayField(key, elements) ==
  [key |-> key, value |-> ObjectValue, members |-> elements, isArray |-> TRUE]

Frame(fields) == [fields |-> fields]

\* The position of a member in an object, 0 when the object has none.
indexOf(object, key) ==
  IF \E i \in 1..Len(object) : object[i].key = key
  THEN CHOOSE i \in 1..Len(object) : object[i].key = key
  ELSE 0

\* Object.assign(target, source): a member the target has keeps its place
\* and takes the new value, the others are added at the end.
RECURSIVE assign(_, _)
assign(target, source) ==
  IF source = <<>> THEN target
  ELSE LET entry == Head(source)
           i == indexOf(target, entry.key)
       IN assign(IF i = 0 THEN Append(target, entry)
                 ELSE [target EXCEPT ![i] = entry],
                 Tail(source))

\* delete object[key]
delete(object, key) == SelectSeq(object, LAMBDA entry : entry.key # key)

\* if (data[key] && typeof data[key] === 'object') { Object.assign(data,
\* data[key]); delete data[key]; } for a member that is an object.
flatten(data, key) ==
  LET i == indexOf(data, key)
  IN IF i # 0 /\ data[i].value = ObjectValue /\ ~data[i].isArray
     THEN delete(assign(data, data[i].members), key)
     ELSE data

\* parsedObs: the 22 positions of data.obs[0] under their names.
parsedObs(obsArray) ==
  [i \in 1..Len(TempestKeys) |-> Field(TempestKeys[i], at(obsArray, i - 1))]

\* data.obs && Array.isArray(data.obs) && data.obs.length > 0
hasObs(data) ==
  LET i == indexOf(data, "obs")
  IN i # 0 /\ data[i].isArray /\ data[i].members # <<>>

\* processWebSocketMessage: every member of the flattened frame except
\* utcDate goes to sendSignalKDelta; the cache is not written.
processWebSocketMessage(m, data, enabled) ==
  IF ~enabled THEN Outcome(m, <<>>, FALSE)
  ELSE LET flattened == flatten(flatten(data, "summary"), "status")
           merged == IF hasObs(flattened)
                     THEN delete(assign(flattened,
                                        parsedObs(flattened[indexOf(flattened, "obs")].members[1])),
                                 "obs")
                     ELSE flattened
           sent == SelectSeq(merged, LAMBDA entry : entry.key # "utcDate")
       IN Outcome(m,
                  [i \in 1..Len(sent) |->
                     sendSignalKDelta("environment.outside.tempest.observations",
                                      sent[i].key, sent[i].value)],
                  FALSE)

\* The try block of wsConnection.on('message'): JSON.parse, then
\* processWebSocketMessage.
wsTryBlock(m, frame, enabled) ==
  IF Has(frame, "malformed") THEN Outcome(m, <<>>, TRUE)
  ELSE processWebSocketMessage(m, frame.fields, enabled)

(***************************************************************************)
(* Configuration, lifecycle and the PUT control surface.                   *)
(***************************************************************************)
Services == {"webSocket", "forecast", "windCalculations"}

\* PluginConfig as plugin.start builds it; apiToken is "the token is a
\* non-empty string"; stationId always has a truthy default.
Config(token, ws, fc, wind, put, lat, lon) ==
  [apiToken |-> token, enableWebSocket |-> ws, enableForecast |-> fc,
   enableWindCalculations |-> wind, enablePutControl |-> put,
   stationLatitude |-> lat, stationLongitude |-> lon]

\* The fields of a fresh WindCalculations (NavigationState defaults).
NewWindCalculations ==
  [headingTrue |-> 0, headingMagnetic |-> 0, courseOverGroundMagnetic |-> undefined,
   speedOverGround |-> 0, airTemp |-> 0, humidity |-> 0]

Range(s) == { s[i] : i \in 1..Len(s) }

NoReply == [op |-> "none", position |-> Origin, type |-> "none",
            options |-> NoOptions, result |-> <<>>]
NoPutReply == [service |-> "none", value |-> FALSE, state |-> "none", statusCode |-> undefined]

\* Every handler other than a facade call or a PUT leaves no reply behind.
NoReplies == reply' = NoReply /\ putReply' = NoPutReply

\* No datagram delivered, nothing handed to app.handleMessage, no conversion.
NoDatagram == [kind |-> "none"]
NoConversion == [key |-> "none", value |-> undefined,
                 result |-> [value |-> undefined, units |-> "null"]]

\* A handler that receives no datagram and publishes nothing.
NoOutputs == datagram' = NoDatagram /\ published' = <<>> /\ converted' = NoConversion

\* The path each field of the calculator is subscribed on.
NavField ==
  [headingTrue |-> "navigation.headingTrue",
   headingMagnetic |-> "navigation.headingMagnetic",
   courseOverGroundMagnetic |-> "navigation.courseOverGroundMagnetic",
   speedOverGround |-> "navigation.speedOverGround",
   airTemp |-> "environment.outside.tempest.observations.airTemperature",
   humidity |-> "environment.outside.tempest.observations.relativeHumidity"]

Init ==
  /\ running = FALSE
  /\ config = Config(FALSE, TRUE, TRUE, TRUE, FALSE, 0, 0)
  /\ currentConfig = null
  /\ registered = FALSE
  /\ udpServer = "null"
  /\ wsConnection = "null"
  /\ forecastInterval = "null"
  /\ windCalculations = null
  /\ navigationSubscriptions = <<>>
  /\ webSocketEnabled = TRUE
  /\ forecastEnabled = TRUE
  /\ windCalculationsEnabled = TRUE
  /\ putHandlers = {}
  /\ latestObservations = <<>>
  /\ latestForecastData = null
  /\ stationLocation = null
  /\ currentVesselPosition = null
  /\ pendingFetch = 0
  /\ now = 0
  /\ reply = NoReply
  /\ putReply = NoPutReply
  /\ lastStrike = undefined
  /\ stateFile = null
  /\ savedOptions = config
  /\ signalk = [airTemperature |-> undefined, relativeHumidity |-> undefined]
  /\ datagram = NoDatagram
  /\ published = <<>>
  /\ converted = NoConversion
  /\ timers = 0
  /\ sockets = 0
  /\ received = [f \in DOMAIN NavField |-> NewWindCalculations[f]]

\* A service state that always reads as off.
getServiceStateOff(service) == FALSE

\* getServiceState
getServiceState(service) ==
  CASE service = "webSocket" -> webSocketEnabled
    [] service = "forecast" -> forecastEnabled
    [] service = "windCalculations" -> windCalculationsEnabled
    [] OTHER -> FALSE

\* plugin.start -> startPluginServices: does this config start the polling?
startsForecast(cfg, enabled) == cfg.enableForecast /\ cfg.apiToken /\ enabled

\* plugin.start(options), the host having stopped any previous run.
Start(options) ==
  /\ ~running
  /\ startsForecast(options, options.enableForecast) => pendingFetch < MaxPending
  /\ running' = TRUE
  /\ config' = options
  /\ currentConfig' = <<options>>
  /\ registered' = TRUE
  /\ stationLocation' =
       IF options.stationLatitude # 0 /\ options.stationLongitude # 0
       THEN <<Pos(options.stationLatitude, options.stationLongitude)>>
       ELSE stationLocation
  /\ webSocketEnabled' = options.enableWebSocket
  /\ forecastEnabled' = options.enableForecast
  /\ windCalculationsEnabled' = options.enableWindCalculations
  \* startPluginServices
  /\ navigationSubscriptions' =
       IF options.enableWindCalculations
       THEN navigationSubscriptions \o <<"position", "navigation">>
       ELSE Append(navigationSubscriptions, "position")
  /\ windCalculations' =
       IF options.enableWindCalculations THEN <<NewWindCalculations>> ELSE windCalculations
  /\ udpServer' = "bound"
  /\ wsConnection' =
       IF options.enableWebSocket /\ options.apiToken THEN "connecting" ELSE wsConnection
  /\ IF startsForecast(options, options.enableForecast)
     THEN forecastInterval' = "active" /\ pendingFetch' = pendingFetch + 1
     ELSE UNCHANGED <<forecastInterval, pendingFetch>>
  \* setupPutControl
  /\ putHandlers' = IF options.enablePutControl THEN putHandlers \cup Services ELSE putHandlers
  /\ NoReplies
  /\ UNCHANGED <<latestObservations, latestForecastData, currentVesselPosition, now, lastStrike>>
  /\ savedOptions' = options /\ UNCHANGED stateFile
  /\ NoOutputs /\ UNCHANGED signalk
  /\ timers' = timers + (IF startsForecast(options, options.enableForecast) THEN 1 ELSE 0)
  /\ sockets' = sockets + (IF options.enableWebSocket /\ options.apiToken THEN 1 ELSE 0)
  /\ UNCHANGED received

\* plugin.stop -> stopPluginServices
Stop ==
  /\ running
  /\ running' = FALSE
  /\ udpServer' = "null"
  /\ wsConnection' = "null"
  /\ forecastInterval' = "null"
  /\ navigationSubscriptions' = <<>>
  /\ windCalculations' = null
  /\ putHandlers' = {}
  /\ NoReplies
  /\ UNCHANGED <<config, currentConfig, registered, webSocketEnabled, forecastEnabled,
                 windCalculationsEnabled, latestObservations, latestForecastData,
                 stationLocation, currentVesselPosition, pendingFetch, now, lastStrike>>
  /\ UNCHANGED <<stateFile, savedOptions>>
  /\ NoOutputs /\ UNCHANGED signalk
  /\ timers' = timers - (IF forecastInterval # "null" THEN 1 ELSE 0)
  /\ sockets' = sockets - (IF wsConnection \in {"connecting", "open"} THEN 1 ELSE 0)
  /\ received' = [f \in DOMAIN NavField |-> NewWindCalculations[f]]

\* handleServiceControl(service, newState, config), newState # currentState
handleServiceControl(service, newState) ==
  /\ webSocketEnabled' = IF service = "webSocket" THEN newState ELSE webSocketEnabled
  /\ forecastEnabled' = IF service = "forecast" THEN newState ELSE forecastEnabled
  /\ windCalculationsEnabled' =
       IF service = "windCalculations" THEN newState ELSE windCalculationsEnabled
  /\ wsConnection' =
       IF service = "webSocket" /\ newState /\ config.enableWebSocket /\ config.apiToken
       THEN "connecting"
       ELSE IF service = "webSocket" /\ ~newState /\ wsConnection # "null"
       THEN "null"
       ELSE wsConnection
  /\ IF service = "forecast" /\ newState /\ config.enableForecast /\ config.apiToken
     THEN forecastInterval' = "active" /\ pendingFetch' = pendingFetch + 1
     ELSE IF service = "forecast" /\ ~newState /\ forecastInterval # "null"
     THEN forecastInterval' = "null" /\ UNCHANGED pendingFetch
     ELSE UNCHANGED <<forecastInterval, pendingFetch>>
  /\ IF service = "windCalculations" /\ newState /\ config.enableWindCalculations
     THEN /\ windCalculations' = <<NewWindCalculations>>
          /\ navigationSubscriptions' = Append(navigationSubscriptions, "navigation")
     ELSE IF service = "windCalculations" /\ ~newState
     THEN /\ navigationSubscriptions' = <<>>
          /\ windCalculations' = null
     ELSE UNCHANGED <<windCalculations, navigationSubscriptions>>
  /\ sockets' =
       IF service = "webSocket" /\ newState /\ config.enableWebSocket /\ config.apiToken
       THEN sockets + 1
       ELSE IF service = "webSocket" /\ ~newState /\ wsConnection \in {"connecting", "open"}
       THEN sockets - 1
       ELSE sockets
  /\ timers' =
       IF service = "forecast" /\ newState /\ config.enableForecast /\ config.apiToken
       THEN timers + 1
       ELSE IF service = "forecast" /\ ~newState /\ forecastInterval # "null"
       THEN timers - 1
       ELSE timers

\* updatePluginConfig: state.currentConfig once savePluginOptions has
\* called back, `saved` telling whether the host reported success.
updatePluginConfig(saved) ==
  IF currentConfig # null /\ saved
  THEN LET updatedConfig ==
             [currentConfig[1] EXCEPT !.enableWebSocket = webSocketEnabled',
                                      !.enableForecast = forecastEnabled',
                                      !.enableWindCalculations = windCalculationsEnabled']
       IN currentConfig' = <<updatedConfig>> /\ savedOptions' = updatedConfig
  ELSE UNCHANGED <<currentConfig, savedOptions>>

\* savePersistedState: the three flags written to the state file.
savePersistedState ==
  stateFile' = <<[webSocketEnabled |-> webSocketEnabled',
                  forecastEnabled |-> forecastEnabled',
                  windCalculationsEnabled |-> windCalculationsEnabled']>>

\* The PUT handler registered for `service`; pathMatches is
\* requestPath === path.
Put(service, pathMatches, value, saved) ==
  /\ running
  /\ service \in putHandlers
  /\ (service = "forecast" /\ value /\ ~forecastEnabled /\ startsForecast(config, TRUE))
       => pendingFetch < MaxPending
  /\ IF pathMatches
     THEN /\ IF value # getServiceState(service)
             THEN handleServiceControl(service, value)
             ELSE UNCHANGED <<webSocketEnabled, forecastEnabled, windCalculationsEnabled,
                              wsConnection, forecastInterval, pendingFetch,
                              windCalculations, navigationSubscriptions, timers, sockets>>
          /\ savePersistedState
          /\ updatePluginConfig(saved)
          /\ putReply' = [service |-> service, value |-> value,
                          state |-> "COMPLETED", statusCode |-> undefined]
     ELSE /\ UNCHANGED <<webSocketEnabled, forecastEnabled, windCalculationsEnabled,
                         wsConnection, forecastInterval, pendingFetch,
                         windCalculations, navigationSubscriptions, currentConfig,
                         stateFile, savedOptions, timers, sockets>>
          /\ putReply' = [service |-> service, value |-> value,
                          state |-> "COMPLETED", statusCode |-> 405]
  /\ reply' = NoReply
  /\ UNCHANGED <<running, config, registered, udpServer, putHandlers, latestObservations,
                 latestForecastData, stationLocation, currentVesselPosition, now, lastStrike>>
  /\ NoOutputs /\ UNCHANGED signalk
  /\ UNCHANGED received

(***************************************************************************)
(* Events delivered by the host and the channels.                          *)
(***************************************************************************)
\* wsConnection.on('open')
WsOpen ==
  /\ wsConnection = "connecting"
  /\ wsConnection' = "open"
  /\ NoReplies
  /\ UNCHANGED <<running, config, currentConfig, registered, udpServer, forecastInterval,
                 windCalculations, navigationSubscriptions, webSocketEnabled,
                 forecastEnabled, windCalculationsEnabled, putHandlers, latestObservations,
                 latestForecastData, stationLocation, currentVesselPosition, pendingFetch,
                 now, lastStrike>>
  /\ UNCHANGED <<stateFile, savedOptions>>
  /\ NoOutputs /\ UNCHANGED signalk
  /\ UNCHANGED <<timers, sockets>>
  /\ UNCHANGED received

\* wsConnection.on('close') after the remote end closed the socket: the
\* handler only logs, state.wsConnection keeps the closed socket.
WsRemoteClose ==
  /\ wsConnection \in {"connecting", "open"}
  /\ wsConnection' = "closed"
  /\ NoReplies
  /\ UNCHANGED <<running, config, currentConfig, registered, udpServer, forecastInterval,
                 windCalculations, navigationSubscriptions, webSocketEnabled,
                 forecastEnabled, windCalculationsEnabled, putHandlers, latestObservations,
                 latestForecastData, stationLocation, currentVesselPosition, pendingFetch,
                 now, lastStrike>>
  /\ UNCHANGED <<stateFile, savedOptions>>
  /\ NoOutputs /\ UNCHANGED signalk
  /\ sockets' = sockets - 1 /\ UNCHANGED timers
  /\ UNCHANGED received

\* The interval timer of startForecastFetching fires: fetchForecast issues
\* a request.
FetchTimer ==
  /\ forecastInterval = "active"
  /\ pendingFetch < MaxPending
  /\ pendingFetch' = pendingFetch + 1
  /\ NoReplies
  /\ UNCHANGED <<running, config, currentConfig, registered, udpServer, wsConnection,
                 forecastInterval, windCalculations, navigationSubscriptions,
                 webSocketEnabled, forecastEnabled, windCalculationsEnabled, putHandlers,
                 latestObservations, latestForecastData, stationLocation,
                 currentVesselPosition, now, lastStrike>>
  /\ UNCHANGED <<stateFile, savedOptions>>
  /\ NoOutputs /\ UNCHANGED signalk
  /\ UNCHANGED <<timers, sockets>>
  /\ UNCHANGED received

\* The last value handed to app.handleMessage on each of the two observation
\* paths the navigation subscription lists.
TempestPath(field) == "environment.outside.tempest.observations." \o field

lastOn(deltas, path, previous) ==
  LET hits == { i \in 1..Len(deltas) : deltas[i].path = path }
  IN IF hits = {} THEN previous
     ELSE deltas[CHOOSE i \in hits : \A j \in hits : j <= i].value

\* [a-z] of the toCamelCase pattern.
LowerCase == LowerOrDigit \ {"0", "1", "2", "3", "4", "5", "6", "7", "8", "9"}

\* The first match of /_([a-z])/ in str, 0 when there is none.
firstLetterMatch(str) ==
  LET matches == { i \in 1..(Len(str) - 1) :
                     charAt(str, i) = "_" /\ charAt(str, i + 1) \in LowerCase }
  IN IF matches = {} THEN 0 ELSE CHOOSE i \in matches : \A j \in matches : i <= j

\* toCamelCase: str.replace(/_([a-z])/g, (_, letter) => letter.toUpperCase()).
\* An underscore followed by a digit stays.
RECURSIVE toCamelCase(_)
toCamelCase(str) ==
  LET i == firstLetterMatch(str)
  IN IF i = 0 THEN str
     ELSE toCamelCase(SubSeq(str, 1, i - 1) \o toUpperCase[charAt(str, i + 1)]
                      \o SubSeq(str, i + 2, Len(str)))

\* createSignalKDelta: one value on one path, no units in the delta.
createSignalKDelta(path, value) == Delta(path, value, noUnits)

\* Object.entries of a polled record, in the order the service sends the
\* fields, without the fields whose value is undefined.
ConditionKeys == <<"time", "air_temperature", "feels_like", "relative_humidity",
                   "precip_accum_local_yesterday">>
EntryKeys == <<"time", "datetime", "day_start_local">>

entries(record, keys) ==
  SelectSeq(keys, LAMBDA key : key \in DOMAIN record /\ record[key] # undefined)

RECURSIVE flat(_)
flat(lists) == IF lists = <<>> THEN <<>> ELSE Head(lists) \o flat(Tail(lists))

\* The unit conversions processForecastData applies to current_conditions.
currentConditionsValue(key, value) ==
  IF key \in {"air_temperature", "feels_like", "dew_point", "wet_bulb_temperature",
              "wet_bulb_globe_temperature"}
  THEN plus(value, KelvinOffset)
  ELSE IF key \in {"sea_level_pressure", "station_pressure"} THEN times(value, 100)
  ELSE IF key = "wind_direction" THEN degToRad(value)
  ELSE IF key = "relative_humidity" THEN over(value, 100)
  ELSE value

\* ... to an hourly forecast entry.
hourlyValue(key, value) ==
  IF key \in {"air_temperature", "feels_like"} THEN plus(value, KelvinOffset)
  ELSE IF key \in {"sea_level_pressure", "station_pressure"} THEN times(value, 100)
  ELSE IF key = "wind_direction" THEN degToRad(value)
  ELSE IF key \in {"relative_humidity", "precip_probability"} THEN over(value, 100)
  ELSE IF key = "precip" THEN over(value, 1000)
  ELSE value

\* ... to a daily forecast entry.
dailyValue(key, value) ==
  IF key \in {"air_temp_high", "air_temp_low"} THEN plus(value, KelvinOffset)
  ELSE IF key \in {"sea_level_pressure", "station_pressure"} THEN times(value, 100)
  ELSE IF key = "wind_direction" THEN degToRad(value)
  ELSE IF key \in {"relative_humidity", "precip_probability"} THEN over(value, 100)
  ELSE value

\* The deltas of current_conditions, one per field.
currentConditionsDeltas(conditions) ==
  LET keys == entries(conditions, ConditionKeys)
  IN [i \in 1..Len(keys) |->
        createSignalKDelta(TempestPath(toCamelCase(keys[i])),
                           currentConditionsValue(keys[i], conditions[keys[i]]))]

\* The deltas of the first 72 hourly entries: one per field, and the instant
\* of `time` once more as an ISO string (the instant, in milliseconds).
hourlyDeltas(hourly) ==
  LET list == slice(hourly, HourlyLimit)
      base == "environment.outside.tempest.forecast.hourly."
      field(forecast, index, key) ==
        (IF key = "time"
         THEN <<createSignalKDelta(base \o "datetime." \o ToString(index),
                                   forecast[key] * 1000)>>
         ELSE <<>>)
        \o <<createSignalKDelta(base \o toCamelCase(key) \o "." \o ToString(index),
                                hourlyValue(key, forecast[key]))>>
      entry(forecast, index) ==
        LET keys == entries(forecast, EntryKeys)
        IN flat([k \in 1..Len(keys) |-> field(forecast, index, keys[k])])
  IN flat([i \in 1..Len(list) |-> entry(list[i], i - 1)])

\* The deltas of the first 10 daily entries; day_start_local, sunrise and
\* sunset once more as ISO strings.
dailyDeltas(daily) ==
  LET list == slice(daily, DailyLimit)
      base == "environment.outside.tempest.forecast.daily."
      field(forecast, index, key) ==
        (IF key \in {"day_start_local", "sunrise", "sunset"}
         THEN <<createSignalKDelta(base \o toCamelCase(key) \o "Iso." \o ToString(index),
                                   forecast[key] * 1000)>>
         ELSE <<>>)
        \o <<createSignalKDelta(base \o toCamelCase(key) \o "." \o ToString(index),
                                dailyValue(key, forecast[key]))>>
      entry(forecast, index) ==
        LET keys == entries(forecast, EntryKeys)
        IN flat([k \in 1..Len(keys) |-> field(forecast, index, keys[k])])
  IN flat([i \in 1..Len(list) |-> entry(list[i], i - 1)])

\* A cache that keeps the first bundle it was given.
cacheForecastDataFirst(data) ==
  IF latestForecastData = null THEN <<data>> ELSE latestForecastData

\* cacheForecastData: state.latestForecastData = data.
cacheForecastData(data) == <<data>>

\* processForecastData: cache the bundle, then (when forecast processing is
\* enabled) cache current_conditions and publish every field of
\* current_conditions, of the hourly and of the daily entries.
processForecastData(data) ==
  /\ latestForecastData' = cacheForecastData(data)
  /\ latestObservations' =
       IF forecastEnabled /\ data.current_conditions # null
       THEN cacheObservationData(latestObservations, "currentConditions",
                                 data.current_conditions[1], now)
       ELSE latestObservations
  /\ published' =
       IF ~forecastEnabled THEN <<>>
       ELSE (IF data.current_conditions # null
             THEN currentConditionsDeltas(data.current_conditions[1]) ELSE <<>>)
            \o hourlyDeltas(data.hourly) \o dailyDeltas(data.daily)

\* fetchForecast: a request in flight is answered with a parsable body.
FetchComplete(data) ==
  /\ pendingFetch > 0
  /\ pendingFetch' = pendingFetch - 1
  /\ processForecastData(data)
  /\ datagram' = [kind |-> "fetch", data |-> data, threw |-> FALSE]
  /\ signalk' = [f \in DOMAIN signalk |-> lastOn(published', TempestPath(f), signalk[f])]
  /\ converted' = NoConversion
  /\ NoReplies
  /\ UNCHANGED <<running, config, currentConfig, registered, udpServer, wsConnection,
                 forecastInterval, windCalculations, navigationSubscriptions,
                 webSocketEnabled, forecastEnabled, windCalculationsEnabled, putHandlers,
                 stationLocation, currentVesselPosition, now, lastStrike>>
  /\ UNCHANGED <<stateFile, savedOptions>>
  /\ UNCHANGED <<timers, sockets>>
  /\ UNCHANGED received

\* fetchForecast: the request is rejected or its body does not parse; the
\* catch block reports the error.
FetchFail ==
  /\ pendingFetch > 0
  /\ pendingFetch' = pendingFetch - 1
  /\ datagram' = [kind |-> "fetch", threw |-> TRUE]
  /\ published' = <<>>
  /\ converted' = NoConversion
  /\ NoReplies
  /\ UNCHANGED <<running, config, currentConfig, registered, udpServer, wsConnection,
                 forecastInterval, windCalculations, navigationSubscriptions,
                 webSocketEnabled, forecastEnabled, windCalculationsEnabled, putHandlers,
                 latestObservations, latestForecastData, stationLocation,
                 currentVesselPosition, now, lastStrike>>
  /\ UNCHANGED <<stateFile, savedOptions>>
  /\ UNCHANGED signalk
  /\ UNCHANGED <<timers, sockets>>
  /\ UNCHANGED received

\* udpServer.on('message')
UdpMessage(msg) ==
  /\ udpServer = "bound"
  /\ \E outcome \in {tryBlock(latestObservations, msg, config, windCalculations, now)} :
        /\ latestObservations' = outcome.cache
        /\ published' = outcome.published
        /\ datagram' = [kind |-> "udp", data |-> msg, threw |-> outcome.threw,
                        escaped |-> escapes(outcome)]
        /\ signalk' =
             [f \in DOMAIN signalk |->
                lastOn(outcome.published, TempestPath(f), signalk[f])]
        /\ lastStrike' =
             IF /\ outcome.published # <<>>
                /\ msg.type = "obs_st"
                /\ IsNumber(at(at(msg.obs, 0), 15))
                /\ at(at(msg.obs, 0), 15) > 0
             THEN at(at(msg.obs, 0), 0)
             ELSE lastStrike
  /\ converted' = NoConversion
  /\ NoReplies
  /\ UNCHANGED <<running, config, currentConfig, registered, udpServer, wsConnection,
                 forecastInterval, windCalculations, navigationSubscriptions,
                 webSocketEnabled, forecastEnabled, windCalculationsEnabled, putHandlers,
                 latestForecastData, stationLocation, currentVesselPosition, pendingFetch,
                 now>>
  /\ UNCHANGED <<stateFile, savedOptions>>
  /\ UNCHANGED <<timers, sockets>>
  /\ UNCHANGED received

\* wsConnection.on('message'): a frame arrives on the open socket.
WsMessage(frame) ==
  /\ wsConnection = "open"
  /\ \E outcome \in {wsTryBlock(latestObservations, frame, webSocketEnabled)} :
        /\ latestObservations' = outcome.cache
        /\ published' = outcome.published
        /\ datagram' = [kind |-> "ws", data |-> frame, threw |-> outcome.threw,
                        escaped |-> escapes(outcome)]
        /\ signalk' =
             [f \in DOMAIN signalk |->
                lastOn(outcome.published, TempestPath(f), signalk[f])]
  /\ converted' = NoConversion
  /\ NoReplies
  /\ UNCHANGED <<running, config, currentConfig, registered, udpServer, wsConnection,
                 forecastInterval, windCalculations, navigationSubscriptions,
                 webSocketEnabled, forecastEnabled, windCalculationsEnabled, putHandlers,
                 latestForecastData, stationLocation, currentVesselPosition, pendingFetch,
                 now, lastStrike>>
  /\ UNCHANGED <<stateFile, savedOptions>>
  /\ UNCHANGED <<timers, sockets>>
  /\ UNCHANGED received

\* handlePositionData, delivered while the position subscription is live.
PositionEvent(position) ==
  /\ "position" \in Range(navigationSubscriptions)
  /\ currentVesselPosition' = <<position>>
  /\ NoReplies
  /\ UNCHANGED <<running, config, currentConfig, registered, udpServer, wsConnection,
                 forecastInterval, windCalculations, navigationSubscriptions,
                 webSocketEnabled, forecastEnabled, windCalculationsEnabled, putHandlers,
                 latestObservations, latestForecastData, stationLocation, pendingFetch,
                 now, lastStrike>>
  /\ UNCHANGED <<stateFile, savedOptions>>
  /\ NoOutputs /\ UNCHANGED signalk
  /\ UNCHANGED <<timers, sockets>>
  /\ UNCHANGED received

\* An update that stores a delivered heading in both heading fields.
updateNavigationDataBoth(nav, path, value) ==
  IF path \in {"navigation.headingTrue", "navigation.headingMagnetic"}
  THEN [nav EXCEPT !.headingTrue = value, !.headingMagnetic = value]
  ELSE IF path = "navigation.courseOverGroundMagnetic"
       THEN [nav EXCEPT !.courseOverGroundMagnetic = value]
  ELSE IF path = "navigation.speedOverGround" THEN [nav EXCEPT !.speedOverGround = value]
  ELSE IF path = "environment.outside.tempest.observations.airTemperature"
       THEN [nav EXCEPT !.airTemp = value]
  ELSE IF path = "environment.outside.tempest.observations.relativeHumidity"
       THEN [nav EXCEPT !.humidity = value]
  ELSE nav

\* WindCalculations.updateNavigationData
updateNavigationData(nav, path, value) ==
  CASE path = "navigation.headingTrue" -> [nav EXCEPT !.headingTrue = value]
    [] path = "navigation.headingMagnetic" -> [nav EXCEPT !.headingMagnetic = value]
    [] path = "navigation.courseOverGroundMagnetic" ->
         [nav EXCEPT !.courseOverGroundMagnetic = value]
    [] path = "navigation.speedOverGround" -> [nav EXCEPT !.speedOverGround = value]
    [] path = "environment.outside.tempest.observations.airTemperature" ->
         [nav EXCEPT !.airTemp = value]
    [] path = "environment.outside.tempest.observations.relativeHumidity" ->
         [nav EXCEPT !.humidity = value]
    [] OTHER -> nav

\* handleNavigationData, delivered while the navigation subscription is live.
NavigationEvent(path, value) ==
  /\ "navigation" \in Range(navigationSubscriptions)
  /\ windCalculations' =
       IF windCalculations = null THEN windCalculations
       ELSE <<updateNavigationData(windCalculations[1], path, value)>>
  /\ NoReplies
  /\ UNCHANGED <<running, config, currentConfig, registered, udpServer, wsConnection,
                 forecastInterval, navigationSubscriptions, webSocketEnabled,
                 forecastEnabled, windCalculationsEnabled, putHandlers, latestObservations,
                 latestForecastData, stationLocation, currentVesselPosition, pendingFetch,
                 now, lastStrike>>
  /\ UNCHANGED <<stateFile, savedOptions>>
  /\ NoOutputs /\ UNCHANGED signalk
  /\ UNCHANGED <<timers, sockets>>
  /\ received' =
       IF windCalculations = null THEN received
       ELSE [f \in DOMAIN NavField |-> IF NavField[f] = path THEN value ELSE received[f]]

\* The wall clock advances to a later instant.
Tick(t) ==
  /\ t > now
  /\ now' = t
  /\ NoReplies
  /\ UNCHANGED <<running, config, currentConfig, registered, udpServer, wsConnection,
                 forecastInterval, windCalculations, navigationSubscriptions,
                 webSocketEnabled, forecastEnabled, windCalculationsEnabled, putHandlers,
                 latestObservations, latestForecastData, stationLocation,
                 currentVesselPosition, pendingFetch, lastStrike>>
  /\ UNCHANGED <<stateFile, savedOptions>>
  /\ NoOutputs /\ UNCHANGED signalk
  /\ UNCHANGED <<timers, sockets>>
  /\ UNCHANGED received

(***************************************************************************)
(* Facade calls: they read the state and leave the returned list in reply. *)
(* Calls are answered one at a time: a reply is handed to its caller before*)
(* the next call is made.                                                  *)
(***************************************************************************)
state == <<running, config, currentConfig, registered, udpServer, wsConnection,
           forecastInterval, windCalculations, navigationSubscriptions,
           webSocketEnabled, forecastEnabled, windCalculationsEnabled, putHandlers,
           latestObservations, latestForecastData, stationLocation,
           currentVesselPosition, pendingFetch, now, lastStrike,
           stateFile, savedOptions,
           signalk,
           timers, sockets,
           received>>

GetForecasts(position, type, options) ==
  /\ registered
  /\ reply = NoReply
  /\ reply' = [op |-> "getForecasts", position |-> position, type |-> type,
               options |-> options, result |-> getForecasts(position, type, options)]
  /\ putReply' = NoPutReply
  /\ UNCHANGED state
  /\ NoOutputs

GetObservations(position, options) ==
  /\ registered
  /\ reply = NoReply
  /\ reply' = [op |-> "getObservations", position |-> position, type |-> "none",
               options |-> options, result |-> getObservations(position, options)]
  /\ putReply' = NoPutReply
  /\ UNCHANGED state
  /\ NoOutputs

GetWarnings(position) ==
  /\ registered
  /\ reply = NoReply
  /\ reply' = [op |-> "getWarnings", position |-> position, type |-> "none",
               options |-> NoOptions, result |-> getWarnings(position)]
  /\ putReply' = NoPutReply
  /\ UNCHANGED state
  /\ NoOutputs

(***************************************************************************)
(* Specifications.  Each one runs the handlers that write the state its    *)
(* facade call or control path reads.                                      *)
(***************************************************************************)
\* Forecast queries: lifecycle, vessel position, polled fetch.
ForecastConfigs ==
  { Config(TRUE, TRUE, TRUE, TRUE, FALSE, 0, 0),
    Config(TRUE, TRUE, TRUE, TRUE, FALSE, HomePort.latitude, HomePort.longitude) }

NextForecast ==
  \/ \E options \in ForecastConfigs : Start(options)
  \/ Stop
  \/ \E position \in VesselPositions : PositionEvent(position)
  \/ FetchTimer
  \/ \E data \in Responses : FetchComplete(data)
  \/ FetchFail
  \/ \E position \in RequestPositions, type \in ForecastTypes, options \in AllOptions :
       GetForecasts(position, type, options)

SpecForecast == Init /\ [][NextForecast]_vars

\* Lightning warnings: the datagram listener, the wall clock, the lifecycle.
AllEnabled == Config(TRUE, TRUE, TRUE, TRUE, FALSE, 0, 0)

\* Epochs of the Tempest observations, seconds.
Epochs == {0, 60}

\* The instants the clock moves through: around the end of each warning.
WarningInstants ==
  { T * 1000 + d : T \in Epochs, d \in {WarningMs - 1, WarningMs} }

NextWarnings ==
  \/ Start(AllEnabled)
  \/ Stop
  \/ \E T \in Epochs, strikes \in {0, 2} : UdpMessage(TempestMsg(T, strikes))
  \/ UdpMessage(AirMsg(0))
  \/ \E t \in WarningInstants : Tick(t)
  \/ \E position \in RequestPositions : GetWarnings(position)

SpecWarnings == Init /\ [][NextWarnings]_vars

\* Observation queries: every handler that puts a record in the cache.
NextObservations ==
  \/ Start(AllEnabled)
  \/ Stop
  \/ \E data \in {RapidWindMsg(0), TempestMsg(0, 0), AirMsg(0)} : UdpMessage(data)
  \/ FetchTimer
  \/ \E cc \in {null, <<CurrentConditions(0)>>} : FetchComplete(Bundle(0, 0, cc))
  \/ FetchFail
  \/ \E position \in RequestPositions, maxCount \in MaxCounts :
       GetObservations(position, Options(maxCount, undefined))

SpecObservations == Init /\ [][NextObservations]_vars

\* The cache and the bundle under every handler that writes them, with the
\* wall clock moving.
LaterInstants == {1000}

NextCache ==
  \/ Start(AllEnabled)
  \/ Stop
  \/ \E data \in {RapidWindMsg(0), TempestMsg(0, 0), AirMsg(0)} : UdpMessage(data)
  \/ FetchTimer
  \/ \E cc \in {null, <<CurrentConditions(0)>>} : FetchComplete(Bundle(0, 0, cc))
  \/ FetchFail
  \/ \E t \in LaterInstants : Tick(t)

SpecCache == Init /\ [][NextCache]_vars

\* The three arrival channels of one observation: the datagram, the frame of
\* the streaming socket and the polled current conditions.
StreamConfig == Config(TRUE, TRUE, TRUE, FALSE, TRUE, 0, 0)

\* Raw values the service reports on both the socket and the poll: feels
\* like 10 degrees C, 50 mm of rain yesterday.
Conditions(t) == [time |-> t, feels_like |-> 1000, precip_accum_local_yesterday |-> 5000]

ObsFrame(t) ==
  Frame(<<ObjectField("summary", <<Field("feels_like", 1000),
                                   Field("precip_accum_local_yesterday", 5000)>>),
          Field("device_id", 1),
          TextField("type", "obs_st"),
          ArrayField("obs", TempestMsg(t, 0).obs)>>)

AckFrame == Frame(<<TextField("type", "ack"), TextField("id", "1")>>)
OpenedFrame == Frame(<<TextField("type", "connection_opened")>>)
UntaggedFrame == Frame(<<TextField("id", "1")>>)

Frames == {ObsFrame(0), ObsFrame(60), AckFrame, OpenedFrame, UntaggedFrame, Unparsable}

NextStream ==
  \/ Start(StreamConfig)
  \/ Stop
  \/ \E value \in BOOLEAN : Put("webSocket", TRUE, value, TRUE)
  \/ WsOpen
  \/ \E frame \in Frames : WsMessage(frame)
  \/ UdpMessage(TempestMsg(0, 0))
  \/ FetchTimer
  \/ FetchComplete(Bundle(0, 0, <<Conditions(0)>>))

SpecStream == Init /\ [][NextStream]_vars

\* The control surface: lifecycle, PUT handlers and what the services do.
ControlConfigs ==
  { Config(TRUE, ws, fc, wind, TRUE, 0, 0) : ws \in BOOLEAN, fc \in BOOLEAN, wind \in BOOLEAN }

NextControl ==
  \/ \E options \in ControlConfigs : Start(options)
  \/ Stop
  \/ \E service \in Services, pathMatches \in BOOLEAN, value \in BOOLEAN :
       Put(service, pathMatches, value, TRUE)
  \/ WsOpen
  \/ WsRemoteClose
  \/ FetchTimer
  \/ FetchComplete(Bundle(0, 0, null))
  \/ FetchFail
  \/ \E position \in VesselPositions : PositionEvent(position)
  \/ NavigationEvent("navigation.speedOverGround", 1250)
  \/ UdpMessage(RapidWindMsg(0))

SpecControl == Init /\ [][NextControl]_vars

\* Persistence of the service flags: the host starts the plugin with the
\* options the user entered, then restarts it with the options it has stored.
PersistConfigs == ControlConfigs

FirstStart(options) == currentConfig = null /\ Start(options)

Restart == currentConfig # null /\ Start(savedOptions)

NextPersist ==
  \/ \E options \in PersistConfigs : FirstStart(options)
  \/ Restart
  \/ Stop
  \/ \E service \in Services, pathMatches \in BOOLEAN, value \in BOOLEAN, saved \in BOOLEAN :
       Put(service, pathMatches, value, saved)
  \/ WsOpen
  \/ WsRemoteClose
  \/ FetchFail

SpecPersist == Init /\ [][NextPersist]_vars


(***************************************************************************)
(* The unit converter as a function of its two arguments: the field names  *)
(* of the switch in both spellings, names the switch does not list, and    *)
(* values that are numbers, null or undefined.                             *)
(***************************************************************************)
\* The case labels of convertToSignalKUnits.
RecognizedFields ==
  { "airTemperature", "feelsLike", "heatIndex", "windChill", "dewPoint",
    "wetBulbTemperature", "wetBulbGlobeTemperature", "stationPressure",
    "pressure", "windDirection", "lightningStrikeAvgDistance",
    "strikeLastDist", "reportInterval", "rainAccumulated",
    "rainAccumulatedFinal", "localDailyRainAccumulation",
    "localDailyRainAccumulationFinal", "precipTotal1h",
    "precipAccumLocalYesterday", "precipAccumLocalYesterdayFinal",
    "relativeHumidity", "windLull", "windAvg", "windGust", "windSpeed",
    "windSampleInterval", "timeEpoch", "strikeLastEpoch",
    "precipMinutesLocalDay", "precipMinutesLocalYesterday", "illuminance",
    "solarRadiation", "battery", "airDensity", "deltaT", "uvIndex",
    "precipitationType", "precipType", "lightningStrikeCount",
    "strikeCount1h", "strikeCount3h", "precipitationAnalysisType",
    "deviceId", "firmwareRevision", "precipAnalysisTypeYesterday", "type",
    "source", "statusCode", "statusMessage", "id", "serialNumber",
    "hubSn", "pressureTrend" }

\* The snake-form spelling of the case labels that have one.
SnakeSpelling ==
  "airTemperature" :> "air_temperature" @@ "feelsLike" :> "feels_like" @@
  "heatIndex" :> "heat_index" @@ "windChill" :> "wind_chill" @@ "dewPoint"
  :> "dew_point" @@ "wetBulbTemperature" :> "wet_bulb_temperature" @@
  "wetBulbGlobeTemperature" :> "wet_bulb_globe_temperature" @@
  "stationPressure" :> "station_pressure" @@ "windDirection" :>
  "wind_direction" @@ "lightningStrikeAvgDistance" :>
  "lightning_strike_avg_distance" @@ "strikeLastDist" :>
  "strike_last_dist" @@ "reportInterval" :> "report_interval" @@
  "rainAccumulated" :> "rain_accumulated" @@ "rainAccumulatedFinal" :>
  "rain_accumulated_final" @@ "localDailyRainAccumulation" :>
  "local_daily_rain_accumulation" @@ "localDailyRainAccumulationFinal" :>
  "local_daily_rain_accumulation_final" @@ "precipTotal1h" :>
  "precip_total_1h" @@ "precipAccumLocalYesterday" :>
  "precip_accum_local_yesterday" @@ "precipAccumLocalYesterdayFinal" :>
  "precip_accum_local_yesterday_final" @@ "relativeHumidity" :>
  "relative_humidity" @@ "windLull" :> "wind_lull" @@ "windAvg" :>
  "wind_avg" @@ "windGust" :> "wind_gust" @@ "windSpeed" :> "wind_speed"
  @@ "windSampleInterval" :> "wind_sample_interval" @@ "timeEpoch" :>
  "time_epoch" @@ "strikeLastEpoch" :> "strike_last_epoch" @@
  "precipMinutesLocalDay" :> "precip_minutes_local_day" @@
  "precipMinutesLocalYesterday" :> "precip_minutes_local_yesterday" @@
  "solarRadiation" :> "solar_radiation" @@ "airDensity" :> "air_density"
  @@ "deltaT" :> "delta_t" @@ "uvIndex" :> "uv_index" @@
  "precipitationType" :> "precipitation_type" @@ "precipType" :>
  "precip_type" @@ "lightningStrikeCount" :> "lightning_strike_count" @@
  "strikeCount1h" :> "strike_count_1h" @@ "strikeCount3h" :>
  "strike_count_3h" @@ "precipitationAnalysisType" :>
  "precipitation_analysis_type" @@ "deviceId" :> "device_id" @@
  "firmwareRevision" :> "firmware_revision" @@
  "precipAnalysisTypeYesterday" :> "precip_analysis_type_yesterday" @@
  "statusCode" :> "status_code" @@ "statusMessage" :> "status_message" @@
  "serialNumber" :> "serial_number" @@ "hubSn" :> "hub_sn" @@
  "pressureTrend" :> "pressure_trend"

UnrecognizedFields == {"energy", "uptime", "rssi", "hub_rssi"}

ConvertKeys ==
  RecognizedFields \cup {SnakeSpelling[f] : f \in DOMAIN SnakeSpelling} \cup UnrecognizedFields

\* 0, 20.00, 180.00 and 1013.25 in hundredths, and the two absent values.
ConvertValues == {undefined, NullValue, 0, 2000, 18000, 101325}

\* One call of convertToSignalKUnits.
Convert(key, value) ==
  /\ converted' = [key |-> key, value |-> value,
                   result |-> convertToSignalKUnits(key, value)]
  /\ datagram' = NoDatagram
  /\ published' = <<>>
  /\ NoReplies
  /\ UNCHANGED state

NextConvert == \E key \in ConvertKeys, value \in ConvertValues : Convert(key, value)

SpecConvert == Init /\ [][NextConvert]_vars

(***************************************************************************)
(* The wind calculator under its inputs: the navigation subscription sets  *)
(* heading, speed over ground, air temperature and humidity, and every     *)
(* rapid_wind datagram is a wind sample.                                   *)
(***************************************************************************)
\* Quadrant bearings, hundredths of a radian and of a degree.
Headings == {0, 157, 314, 471}
WindDirections == {0, 9000, 18000, 27000}

\* 0, 4.8 km/h and 5 km/h in units of 1/900 m/s.
WindSpeeds == {0, 1200, 1250}
GroundSpeeds == {0, 1250}

\* Temperatures around 10, 26.67 and 27 degrees; humidities around 40 percent.
AirTemps == {990, 1000, 1001, 2660, 2666, 2667, 2670, 2700}
Humidities == {3900, 4000}

NextWind ==
  \/ Start(AllEnabled)
  \/ Stop
  \/ \E value \in Headings : NavigationEvent("navigation.headingTrue", value)
  \/ \E value \in Headings : NavigationEvent("navigation.headingMagnetic", value)
  \/ \E value \in GroundSpeeds : NavigationEvent("navigation.speedOverGround", value)
  \/ \E value \in AirTemps : NavigationEvent(TempestPath("airTemperature"), value)
  \/ \E value \in Humidities : NavigationEvent(TempestPath("relativeHumidity"), value)
  \/ \E windSpeed \in WindSpeeds, windDirection \in WindDirections :
       UdpMessage(RapidWind(0, windSpeed, windDirection))

SpecWind == Init /\ [][NextWind]_vars

(***************************************************************************)
(* The datagram listener under every kind of datagram: the seven message   *)
(* types as the station sends them, datagrams that cannot be decoded,      *)
(* datagrams with a short positional array or without an optional member,  *)
(* and the host delivering the plugin's own observation deltas back        *)
(* through the navigation subscription.                                    *)
(***************************************************************************)
\* Air temperature (hundredths of a degree C) and relative humidity
\* (hundredths of a percent) of the Tempest observations.
TempestTemps == {0, 990}
TempestHumidities == {8000}

\* Datagrams as the station sends them (a status timestamp is non-zero).
WellFormed ==
  {RapidWindMsg(0), AirMsg(0), RainMsg(0), StrikeMsg(0), HubMsg(60), DeviceMsg(60)}
  \cup { TempestObs(0, 0, T, H) : T \in TempestTemps, H \in TempestHumidities }

\* Datagrams the listener cannot decode.
Undecodable ==
  {Unparsable,
   Without(RapidWindMsg(0), "type"),
   [type |-> "light_debug"],
   Without(RapidWindMsg(0), "ob"),
   Without(TempestMsg(0, 0), "obs"),
   Without(AirMsg(0), "obs"),
   Without(RainMsg(0), "evt"),
   Without(StrikeMsg(0), "evt"),
   [type |-> "obs_st", obs |-> <<>>],
   [type |-> "obs_air", obs |-> <<>>]}

\* Datagrams whose positional array stops early or that lack an optional member.
Partial ==
  {Shortened(RapidWindMsg(0), 1), Shortened(TempestMsg(0, 0), 3),
   Shortened(AirMsg(0), 2), Shortened(StrikeMsg(0), 1),
   Without(HubMsg(60), "radio_stats"), Without(DeviceMsg(60), "hub_sn")}

\* The subscription manager delivers the last delta on one of the plugin's
\* own observation paths to handleNavigationData.
OwnDelta(field) ==
  /\ signalk[field] # undefined
  /\ NavigationEvent(TempestPath(field), signalk[field])

NextDatagram ==
  \/ Start(AllEnabled)
  \/ Stop
  \/ \E msg \in WellFormed : UdpMessage(msg)
  \/ \E msg \in Undecodable : UdpMessage(msg)
  \/ \E msg \in Partial : UdpMessage(msg)
  \/ \E field \in DOMAIN signalk : OwnDelta(field)

SpecDatagram == Init /\ [][NextDatagram]_vars

(***************************************************************************)
(* One run of the plugin with the wind calculator: the navigation          *)
(* subscription delivers values, wind samples and observations arrive, and *)
(* the three services are toggled through their control paths.             *)
(***************************************************************************)
WindOnly == Config(TRUE, FALSE, FALSE, TRUE, TRUE, 0, 0)

\* The values delivered on each subscribed path.
Deliveries ==
  { <<"navigation.headingTrue", 157>>, <<"navigation.headingTrue", 314>>,
    <<"navigation.headingMagnetic", 157>>,
    <<"navigation.speedOverGround", 1250>>,
    <<TempestPath("airTemperature"), 990>> }

NextNavigation ==
  \/ Start(WindOnly)
  \/ \E service \in Services, value \in BOOLEAN : Put(service, TRUE, value, TRUE)
  \/ \E d \in Deliveries : NavigationEvent(d[1], d[2])
  \/ UdpMessage(RapidWindMsg(0))
  \/ UdpMessage(TempestMsg(0, 0))

SpecNavigation == Init /\ [][NextNavigation]_vars

(***************************************************************************)
(* Properties of the forecast query (checked under SpecForecast).          *)
(***************************************************************************)
\* The StationPosition of the data model: the last vessel position, else the
\* configured coordinate, else the origin.
StationPosition ==
  IF currentVesselPosition # null THEN currentVesselPosition[1]
  ELSE IF stationLocation # null THEN stationLocation[1]
  ELSE Origin

\* The cached entries of the kind a forecast call asks for.
CachedEntries(type) ==
  IF latestForecastData = null THEN <<>>
  ELSE IF type = "point" THEN latestForecastData[1].hourly
  ELSE latestForecastData[1].daily

\* C1: getForecasts returns an empty list whenever the requested position is
\* more than 100,000 m from the StationPosition, and a non-empty list when it
\* is at most 100,000 m away and the cached bundle has entries of the
\* requested kind (no options given).
C1_DistanceGate ==
  (reply.op = "getForecasts" /\ reply.options = NoOptions) =>
    LET d == calculateDistance(reply.position, StationPosition)
    IN /\ d > 100000 => reply.result = <<>>
       /\ (d <= 100000 /\ Len(CachedEntries(reply.type)) > 0) => Len(reply.result) > 0

\* C2: within the distance gate and without options, a daily query returns
\* min(n, 10) records for n cached daily entries and a point query returns
\* min(n, 72) records for n cached hourly entries.
C2_ForecastCounts ==
  (/\ reply.op = "getForecasts"
   /\ reply.options = NoOptions
   /\ latestForecastData # null
   /\ calculateDistance(reply.position, StationPosition) <= 100000) =>
    Len(reply.result) =
      Min(Len(CachedEntries(reply.type)), IF reply.type = "daily" THEN 10 ELSE 72)

\* C3: a forecast query returns cached data only if the requested position
\* is within 100 km of the configured home port, also after vessel position
\* events.
C3_HomePortGate ==
  (/\ reply.op = "getForecasts"
   /\ Len(reply.result) > 0
   /\ stationLocation # null) =>
    calculateDistance(reply.position, stationLocation[1]) <= 100000

\* C8: with both startDate and a positive maxCount the result holds only
\* entries dated at or after startDate and at most maxCount of them.
C8_FilterThenTruncate ==
  (/\ reply.op = "getForecasts"
   /\ reply.options.startDate # undefined
   /\ reply.options.maxCount # undefined
   /\ reply.options.maxCount > 0) =>
    /\ \A i \in 1..Len(reply.result) : reply.result[i].date >= reply.options.startDate
    /\ Len(reply.result) <= reply.options.maxCount

(***************************************************************************)
(* Properties of the warnings query (checked under SpecWarnings).          *)
(***************************************************************************)
\* C4: with a cached tempest record of strike count > 0 and epoch T,
\* getWarnings returns exactly one lightning warning spanning
\* [T, T + 30 min] at every query time strictly before T + 30 min, and an
\* empty list at or after T + 30 min; with strike count 0 or no cached
\* tempest record it returns an empty list.
C4_LightningWarning ==
  reply.op = "getWarnings" =>
    LET tempest == mapGet(latestObservations, "tempest")
    IN IF tempest # null /\ tempest[1].lightningStrikeCount > 0
          /\ now < (tempest[1].timeEpoch * 1000) + (30 * 60 * 1000)
       THEN /\ Len(reply.result) = 1
            /\ reply.result[1].type = "lightning"
            /\ reply.result[1].startTime = tempest[1].timeEpoch * 1000
            /\ reply.result[1].endTime = (tempest[1].timeEpoch * 1000) + (30 * 60 * 1000)
       ELSE reply.result = <<>>

\* C4 happens: one millisecond before the end of the window a query has
\* answered with the warning, and exactly at the end a query has answered
\* with the empty list.
C4_Witness ==
  /\ reply.op = "getWarnings"
  /\ mapHas(latestObservations, "tempest")
  /\ mapGet(latestObservations, "tempest")[1].lightningStrikeCount > 0
  /\ now = (mapGet(latestObservations, "tempest")[1].timeEpoch * 1000) + WarningMs - 1
  /\ Len(reply.result) = 1

\* C5: once a Tempest observation reporting strike count > 0 at epoch T has
\* been ingested, getWarnings returns a lightning warning at every query
\* time in [T, T + 30 min), whatever observations are ingested in between.
C5_WarningPersists ==
  (/\ reply.op = "getWarnings"
   /\ lastStrike # undefined
   /\ lastStrike * 1000 <= now
   /\ now < (lastStrike * 1000) + (30 * 60 * 1000)) =>
    Len(reply.result) > 0

(***************************************************************************)
(* Properties of the observations query (checked under SpecObservations).  *)
(***************************************************************************)
\* The result is the same for every requested position.
PositionIgnored ==
  \A p \in RequestPositions : getObservations(p, reply.options) = reply.result

\* The result has one record per cached kind, in the cache's order.
OnePerCachedKind ==
  /\ Len(reply.result) = Len(latestObservations)
  /\ \A i \in 1..Len(latestObservations) :
       reply.result[i].description = latestObservations[i].type

\* C6 as stated: for any two requested positions and the same cache state
\* and options the result lists are identical, and each contains one record
\* for every cached observation kind.
C6_Original ==
  reply.op = "getObservations" => (PositionIgnored /\ OnePerCachedKind)

\* C6: for any two requested positions and the same cache state and options
\* the result lists are identical; when no maxCount is given, each contains
\* one record for every cached observation kind.
C6_PositionIgnored ==
  reply.op = "getObservations" =>
    /\ PositionIgnored
    /\ reply.options.maxCount = undefined => OnePerCachedKind

\* C6 happens: a query from a position beyond the forecast distance gate has
\* answered with a record for each of several cached kinds.
C6_Witness ==
  /\ reply.op = "getObservations"
  /\ reply.options.maxCount = undefined
  /\ calculateDistance(reply.position, getStationLocation) > maxDistance
  /\ Len(latestObservations) >= 2
  /\ Len(reply.result) = Len(latestObservations)

\* C7: when maxCount is given to getObservations, the result is the first
\* min(maxCount, k) records of the k cached kinds, for every non-negative
\* maxCount including 0, and never has more than maxCount records.
C7_MaxCount ==
  (reply.op = "getObservations" /\ reply.options.maxCount # undefined) =>
    /\ Len(reply.result) = Min(reply.options.maxCount, Len(latestObservations))
    /\ \A i \in 1..Len(reply.result) :
         reply.result[i].description = latestObservations[i].type
    /\ Len(reply.result) <= reply.options.maxCount

(***************************************************************************)
(* Properties of the PUT control paths (checked under SpecControl).        *)
(***************************************************************************)
\* The resources of a service are in place.
ServiceRunning(service) ==
  CASE service = "webSocket" -> wsConnection \in {"connecting", "open"}
    [] service = "forecast" -> forecastInterval = "active"
    [] service = "windCalculations" ->
         windCalculations # null /\ "navigation" \in Range(navigationSubscriptions)

\* The resources of a service are released.
ServiceStopped(service) ==
  CASE service = "webSocket" -> wsConnection \notin {"connecting", "open"}
    [] service = "forecast" -> forecastInterval # "active"
    [] service = "windCalculations" ->
         windCalculations = null /\ "navigation" \notin Range(navigationSubscriptions)

\* C9: with an API token configured, after a PUT of true on a control path
\* is answered COMPLETED the corresponding service is running, and after a
\* PUT of false it is stopped, from every reachable state.
C9_PutToggles ==
  (/\ putReply.state = "COMPLETED"
   /\ putReply.statusCode = undefined
   /\ config.apiToken) =>
    IF putReply.value
    THEN ServiceRunning(putReply.service)
    ELSE ServiceStopped(putReply.service)

\* C10: turning off one of the three controls releases only that service's
\* own connection, timer or subscription: the other services' resources,
\* the datagram listener and the vessel position subscription stay as they
\* were.
C10_IndependentStop ==
  [][\A service \in Services :
       (/\ running /\ running'
        /\ getServiceState(service)
        /\ ~getServiceState(service)') =>
         /\ udpServer' = udpServer
         /\ ("position" \in Range(navigationSubscriptions)
               => "position" \in Range(navigationSubscriptions'))
         /\ service # "webSocket" => wsConnection' = wsConnection
         /\ service # "forecast" => forecastInterval' = forecastInterval
         /\ service # "windCalculations" =>
              /\ windCalculations' = windCalculations
              /\ navigationSubscriptions' = navigationSubscriptions]_vars

(***************************************************************************)
(* Properties of the persisted flags (checked under SpecPersist).          *)
(***************************************************************************)
\* C11: at startup each of the three service flags takes the value stored in
\* the on-disk record when that record exists, so a flag toggled before a
\* restart has the toggled value after the restart.
C11_PersistedFlags ==
  [][(~running /\ running' /\ stateFile # null) =>
       /\ webSocketEnabled' = stateFile[1].webSocketEnabled
       /\ forecastEnabled' = stateFile[1].forecastEnabled
       /\ windCalculationsEnabled' = stateFile[1].windCalculationsEnabled]_vars

(***************************************************************************)
(* Properties of the unit converter (checked under SpecConvert).           *)
(***************************************************************************)
\* The canonical spelling of a recognized field name given in either form.
Canonical(key) ==
  IF key \in RecognizedFields THEN key
  ELSE CHOOSE f \in DOMAIN SnakeSpelling : SnakeSpelling[f] = key

IsRecognized(key) ==
  key \in RecognizedFields \/ \E f \in DOMAIN SnakeSpelling : SnakeSpelling[f] = key

\* C16: the unit label depends on the field name alone: for a recognized
\* field it is the same for every value passed, null and undefined
\* included; for an unrecognized field it is null and the value is passed
\* through.
C16_LabelByFieldAlone ==
  converted.key # "none" =>
    /\ \A v \in ConvertValues :
         convertToSignalKUnits(converted.key, v).units = converted.result.units
    /\ ~IsRecognized(converted.key) =>
         /\ converted.result.units = "null"
         /\ converted.result.value = converted.value

\* The rule of the conversion table for a canonical field name.
TableRule(f, v) ==
  CASE f \in {"airTemperature", "feelsLike", "heatIndex", "windChill", "dewPoint",
              "wetBulbTemperature", "wetBulbGlobeTemperature"} ->
         [value |-> v + 27315, units |-> "K"]
    [] f \in {"stationPressure", "pressure"} -> [value |-> v * 100, units |-> "Pa"]
    [] f = "windDirection" -> [value |-> (2 * v * 314 + 18000) \div 36000, units |-> "rad"]
    [] f \in {"lightningStrikeAvgDistance", "strikeLastDist"} ->
         [value |-> v * 1000, units |-> "m"]
    [] f = "reportInterval" -> [value |-> v * 60, units |-> "s"]
    [] f \in {"rainAccumulated", "rainAccumulatedFinal", "localDailyRainAccumulation",
              "localDailyRainAccumulationFinal", "precipTotal1h",
              "precipAccumLocalYesterday", "precipAccumLocalYesterdayFinal"} ->
         [value |-> v \div 1000, units |-> "m"]
    [] f = "relativeHumidity" -> [value |-> v \div 100, units |-> "ratio"]
    [] f \in {"windLull", "windAvg", "windGust", "windSpeed"} ->
         [value |-> v, units |-> "m/s"]
    [] f \in {"windSampleInterval", "timeEpoch", "strikeLastEpoch",
              "precipMinutesLocalDay", "precipMinutesLocalYesterday"} ->
         [value |-> v, units |-> "s"]
    [] f = "illuminance" -> [value |-> v, units |-> "lux"]
    [] f = "solarRadiation" -> [value |-> v, units |-> "W/m2"]
    [] f = "battery" -> [value |-> v, units |-> "V"]
    [] f = "airDensity" -> [value |-> v, units |-> "kg/m3"]
    [] f = "deltaT" -> [value |-> v, units |-> "K"]
    [] OTHER -> [value |-> v, units |-> "null"]

\* C17: for every recognized field and every numeric value the converter
\* applies exactly its table rule, and the snake-form spelling of a field
\* name gives the same value and label as its camel-case spelling.
C17_TableRule ==
  (/\ converted.key # "none"
   /\ IsRecognized(converted.key)
   /\ converted.value \notin {undefined, NullValue}) =>
    /\ converted.result = TableRule(Canonical(converted.key), converted.value)
    /\ converted.result = convertToSignalKUnits(Canonical(converted.key), converted.value)

\* C17 happens: a field name with several underscores has been converted by
\* a rule that changes the value, and a temperature of 0 has become 273.15.
C17_Witness ==
  \/ /\ converted.key = "local_daily_rain_accumulation_final"
     /\ converted.value = 101325
     /\ converted.result = [value |-> 101, units |-> "m"]
  \/ /\ converted.key = "air_temperature"
     /\ converted.value = 0
     /\ converted.result = [value |-> 27315, units |-> "K"]

(***************************************************************************)
(* Properties of the wind calculator (checked under SpecWind).             *)
(***************************************************************************)
\* The deltas of the handler just run, by path.
HasDelta(path) == \E i \in 1..Len(published) : published[i].path = path
ValueAt(path) == published[CHOOSE i \in 1..Len(published) : published[i].path = path].value

\* A rapid_wind sample has just been run through the calculator.
WindSample ==
  /\ datagram.kind = "udp"
  /\ Has(datagram.data, "type")
  /\ datagram.data.type = "rapid_wind"
  /\ HasDelta("environment.wind.speedTrue")

\* The sample's wind speed and the calculator's stored state at the sample.
SampleSpeed == at(datagram.data.ob, 1)
SampleDirection == at(datagram.data.ob, 2)
Nav == windCalculations[1]
WindChillPath == TempestPath("windChill")
HeatIndexPath == TempestPath("heatIndex")
FeelsLikePath == TempestPath("feelsLike")

\* C13: the published feels-like value is the wind-chill value when wind
\* chill was computed and the air temperature is at most 10 degrees C,
\* otherwise the heat-index value when heat index was computed and the air
\* temperature is at least 27 degrees C, otherwise the air temperature; in
\* all three branches it is in kelvin, the last one being the air temperature
\* in degrees C plus 273.15.
C13_FeelsLikeKelvin ==
  WindSample =>
    /\ HasDelta(FeelsLikePath)
    /\ ValueAt(FeelsLikePath) =
         IF HasDelta(WindChillPath) /\ Nav.airTemp <= 1000 THEN ValueAt(WindChillPath)
         ELSE IF HasDelta(HeatIndexPath) /\ Nav.airTemp >= 2700 THEN ValueAt(HeatIndexPath)
         ELSE Nav.airTemp + KelvinOffset

ApparentOfSample ==
  calculateApparentWind(Nav, [windSpeed |-> SampleSpeed,
                              windDirection |-> SampleDirection,
                              airTemperature |-> Nav.airTemp])

TrueEqualsApparent ==
  /\ ValueAt("environment.wind.speedTrue") = SampleSpeed
  /\ ValueAt("environment.wind.directionTrue") = ApparentOfSample.apparentTrueRad
  /\ ValueAt("environment.wind.directionMagnetic") = ApparentOfSample.apparentMagneticRad

\* C18, as stated: with speed over ground 0 the true wind speed is the
\* apparent wind speed and the true wind bearing is the apparent wind's
\* absolute bearing, in the true and in the magnetic frame, for every heading
\* and every sample.
C18_Original ==
  (WindSample /\ Nav.speedOverGround = 0) => TrueEqualsApparent

\* C18: the same for every sample of non-zero wind speed; a sample of zero
\* speed has true wind speed 0 and the bearing atan2 gives a zero vector.
C18_ZeroGroundSpeed ==
  (WindSample /\ Nav.speedOverGround = 0) =>
    /\ ValueAt("environment.wind.speedTrue") = SampleSpeed
    /\ SampleSpeed > 0 => TrueEqualsApparent

\* A sample from abeam on a vessel at rest heading west with another magnetic
\* heading: the bearings wrap past north.
C18_Witness ==
  /\ WindSample
  /\ Nav.speedOverGround = 0
  /\ Nav.headingTrue = 471
  /\ Nav.headingMagnetic = 314
  /\ SampleSpeed = 1250
  /\ SampleDirection = 9000
  /\ ValueAt("environment.wind.directionTrue") = 0
  /\ ValueAt("environment.wind.directionMagnetic") = 471

(***************************************************************************)
(* Properties of the datagram listener (checked under SpecDatagram).       *)
(***************************************************************************)
MessageTypes ==
  {"rapid_wind", "obs_st", "obs_air", "evt_precip", "evt_strike", "hub_status",
   "device_status"}

\* The datagram is unparsable, has no type tag, has an unknown type tag, or
\* lacks its required positional array (ob/obs/evt missing, or obs empty).
FailsClosedCase(data) ==
  \/ Has(data, "malformed")
  \/ ~Has(data, "type")
  \/ data.type \notin MessageTypes
  \/ data.type = "rapid_wind" /\ ~Has(data, "ob")
  \/ data.type \in {"obs_st", "obs_air"} /\ (~Has(data, "obs") \/ data.obs = <<>>)
  \/ data.type \in {"evt_precip", "evt_strike"} /\ ~Has(data, "evt")

\* C12: for every datagram that is unparsable, has no type tag, has an
\* unknown type tag or lacks its required positional array, no delta is
\* published, the observation cache is unchanged, no error escapes the
\* message callback, and the listener stays bound for the next datagram.
C12_FailsClosed ==
  [][(datagram'.kind = "udp" /\ FailsClosedCase(datagram'.data)) =>
       /\ published' = <<>>
       /\ latestObservations' = latestObservations
       /\ signalk' = signalk
       /\ ~datagram'.escaped
       /\ udpServer' = "bound"]_vars

\* Unparsable bytes arrive after three kinds of observation have been cached.
C12_Witness ==
  /\ datagram.kind = "udp"
  /\ Has(datagram.data, "malformed")
  /\ datagram.threw
  /\ Len(latestObservations) = 3
  /\ published = <<>>

\* The length of each positional layout.
LayoutLength ==
  [rapid_wind |-> 3, obs_st |-> 22, obs_air |-> 8, evt_precip |-> 1, evt_strike |-> 3]

\* The first positional array of a datagram that has one.
Positional(data) ==
  IF Has(data, "ob") THEN data.ob
  ELSE IF Has(data, "obs") THEN data.obs[1]
  ELSE data.evt

\* A positional array is present but shorter than its layout, or a status
\* object lacks an optional member.
MissingOptional(data) ==
  /\ ~FailsClosedCase(data)
  /\ \/ /\ data.type \in DOMAIN LayoutLength
        /\ Len(Positional(data)) \in 1..(LayoutLength[data.type] - 1)
     \/ data.type = "hub_status" /\ ~Has(data, "radio_stats")
     \/ data.type = "device_status" /\ ~Has(data, "hub_sn")

\* C20: when a positional array is shorter than its layout, or a status
\* object lacks an optional member, decoding does not throw, no delta is
\* published for the absent fields, and the present fields are published.
C20_AbsentSkipped ==
  (datagram.kind = "udp" /\ MissingOptional(datagram.data)) =>
    /\ ~datagram.threw
    /\ published # <<>>
    /\ \A i \in 1..Len(published) : published[i].value # undefined

\* C19: the calculator's stored air temperature is in degrees C and its
\* stored humidity in percent: what the navigation subscription delivers on
\* the plugin's own observation paths is the T and the H of a Tempest
\* observation.
C19_CelsiusFeedback ==
  windCalculations # null =>
    /\ windCalculations[1].airTemp \in {0} \cup TempestTemps
    /\ windCalculations[1].humidity \in {0} \cup TempestHumidities

(***************************************************************************)
(* Further properties of the wind calculator.                              *)
(***************************************************************************)
\* A Tempest observation has just been run through the calculator.
TempestSample ==
  /\ datagram.kind = "udp"
  /\ Has(datagram.data, "type")
  /\ datagram.data.type = "obs_st"
  /\ HasDelta("environment.wind.speedTrue")

\* The wind sample processTempestObservation hands to the calculator: the
\* air temperature of the observation is the override.
TempestWindInput ==
  LET obs == at(datagram.data.obs, 0)
  IN [windSpeed |-> at(obs, 2), windDirection |-> at(obs, 4),
      airTemperature |-> at(obs, 7)]

\* C27 (checked under SpecDatagram): the air temperature carried by the
\* apparent-wind result is the override passed with the wind sample whenever
\* one is provided, 0 degrees C included, and the stored air temperature only
\* when none is provided.
C27_OverrideWins ==
  TempestSample =>
    calculateApparentWind(Nav, TempestWindInput).airTemperature =
      IF TempestWindInput.airTemperature # undefined
      THEN TempestWindInput.airTemperature
      ELSE Nav.airTemp

\* C28 (checked under SpecWind): for every heading, speed over ground and
\* wind sample the relative true-wind angles published for the ground and
\* the water frame lie in (-PI, PI]; -PI is never produced.
C28_HalfOpenInterval ==
  WindSample =>
    /\ -PI < ValueAt("environment.wind.angleTrueGround")
    /\ ValueAt("environment.wind.angleTrueGround") <= PI
    /\ -PI < ValueAt("environment.wind.angleTrueWater")
    /\ ValueAt("environment.wind.angleTrueWater") <= PI

(***************************************************************************)
(* Properties of the calculator's stored state (checked under              *)
(* SpecNavigation).                                                        *)
(***************************************************************************)
\* C26, as stated: once a value has been received for a field, the stored
\* field is the last value received for it, whatever wind derivations,
\* observations or control toggles, turning wind calculation off and on
\* again included, have happened since.
C26_Original ==
  windCalculations # null =>
    \A f \in DOMAIN NavField : windCalculations[1][f] = received[f]

\* C26: while a calculator exists a stored field changes only when a value
\* is delivered, and then to the last value delivered for its own path; wind
\* derivations, observations and toggles of the other services leave every
\* field alone.
\* Turning wind calculation off discards the calculator, and the one built
\* when it is turned on again starts from the zero defaults.
C26_LastValue ==
  [][((windCalculations # null /\ windCalculations' # null) =>
        (\A f \in DOMAIN NavField :
           (windCalculations'[1][f] # windCalculations[1][f] =>
              (received' # received \/ windCalculations[1][f] # received[f])
              /\ windCalculations'[1][f] = received'[f])))
     /\ ((windCalculations = null /\ windCalculations' # null) =>
           (windCalculations' = <<NewWindCalculations>>))]_vars

\* A wind sample has been derived after both headings, the speed and the
\* air temperature were received.
C26_Witness ==
  /\ WindSample
  /\ Nav.headingTrue = 314
  /\ Nav.headingMagnetic = 157
  /\ Nav.speedOverGround = 1250
  /\ Nav.airTemp = 990
  /\ received.headingTrue = 314
  /\ ~webSocketEnabled

(***************************************************************************)
(* Properties of the polled fetch and of the cache (checked under          *)
(* SpecObservations and SpecCache).                                        *)
(***************************************************************************)
\* C30: once plugin.stop has returned, no step publishes a delta or changes
\* the observation cache or the forecast bundle, a fetch answered after the
\* stop included.
C30_QuietAfterStop ==
  [][(~running /\ ~running') =>
       (/\ published' = <<>>
        /\ latestObservations' = latestObservations
        /\ latestForecastData' = latestForecastData)]_vars

\* The step just taken was a fetch that failed / that was answered.
FetchFailed == datagram.kind = "fetch" /\ datagram.threw
FetchAnswered == datagram.kind = "fetch" /\ ~datagram.threw

\* C24: a failed fetch changes neither the forecast bundle nor any cache
\* entry, publishes nothing and leaves the interval timer as it was, so that
\* the timer can fire again; a fetch that is answered replaces the bundle by
\* the response as a whole.
C24_FailedFetch ==
  /\ [][(FetchFailed' =>
           (/\ latestForecastData' = latestForecastData
            /\ latestObservations' = latestObservations
            /\ published' = <<>>
            /\ forecastInterval' = forecastInterval))
        /\ (FetchAnswered' => latestForecastData' = <<datagram'.data>>)]_vars
  /\ []((FetchFailed /\ forecastInterval = "active") => ENABLED FetchTimer)

\* A fetch has failed while a bundle and current conditions are cached and the
\* timer is active.
C24_Witness ==
  /\ FetchFailed
  /\ latestForecastData # null
  /\ \E i \in 1..Len(latestObservations) : latestObservations[i].type = "currentConditions"
  /\ forecastInterval = "active"

\* The kinds of record the cache is keyed by, and the kind each datagram
\* type is cached under.
CacheKinds == {"rapidWind", "tempest", "air", "currentConditions"}
KindOf == [rapid_wind |-> "rapidWind", obs_st |-> "tempest", obs_air |-> "air"]

\* The kinds whose entry differs between two caches.
PutKinds(before, after) == { k \in CacheKinds : mapGet(after, k) # mapGet(before, k) }

\* C25: the cache holds one entry per kind and only the four kinds; a step
\* that changes it changes the entry of one kind, the kind of the message
\* just handled, stamps it with the current time and leaves the other
\* entries alone; a put made for a datagram leaves the forecast bundle alone;
\* and the entry put for current_conditions is the record of the response.
C25_PutFrame ==
  [][(/\ \A i \in 1..Len(latestObservations') : latestObservations'[i].type \in CacheKinds
      /\ \A i, j \in 1..Len(latestObservations') :
           (latestObservations'[i].type = latestObservations'[j].type => i = j)
      /\ (latestObservations' # latestObservations =>
            (/\ Cardinality(PutKinds(latestObservations, latestObservations')) = 1
             /\ \A k \in PutKinds(latestObservations, latestObservations') :
                  /\ mapGet(latestObservations', k)[1].timestamp = now
                  /\ (datagram'.kind = "udp" =>
                        (k = KindOf[datagram'.data.type]
                         /\ latestForecastData' = latestForecastData))
                  /\ (datagram'.kind = "fetch" =>
                        (k = "currentConditions"
                         /\ mapGet(latestObservations', k)[1] =
                              [timestamp |-> now] @@ datagram'.data.current_conditions[1]))
                  /\ datagram'.kind \in {"udp", "fetch"})))]_vars

\* All four kinds are cached, one of them put after the clock has moved.
C25_Witness ==
  /\ \A k \in CacheKinds : mapHas(latestObservations, k)
  /\ latestForecastData # null
  /\ datagram.kind = "udp"
  /\ mapGet(latestObservations, "tempest")[1].timestamp = 1000
  /\ mapGet(latestObservations, "air")[1].timestamp = 0

(***************************************************************************)
(* Properties of the timers and sockets (checked under SpecControl).       *)
(***************************************************************************)
\* C29: in every reachable state at most one interval timer is set and at
\* most one socket is not closed, and each of them is the one the plugin
\* state refers to: a timer exists exactly when state.forecastInterval holds
\* one, a socket is live exactly when state.wsConnection holds a socket that
\* is not closed.
C29_NoLeak ==
  /\ timers = (IF forecastInterval = "active" THEN 1 ELSE 0)
  /\ sockets = (IF wsConnection \in {"connecting", "open"} THEN 1 ELSE 0)

\* A timer and a live socket exist after a PUT of true on the streaming
\* control path was answered, with as many requests in flight as the model
\* follows.
C29_Witness ==
  /\ running
  /\ timers = 1
  /\ sockets = 1
  /\ putReply # NoPutReply
  /\ putReply.service = "webSocket"
  /\ putReply.value
  /\ putReply.statusCode = undefined
  /\ stateFile # null
  /\ pendingFetch = MaxPending

(***************************************************************************)
(* Properties of the streaming socket (checked under SpecStream).          *)
(***************************************************************************)
\* The frame just handled by the socket's message callback, and its type tag
\* ("" when it has none).
WsHandled == datagram.kind = "ws" /\ Has(datagram.data, "fields")
FrameType ==
  LET i == indexOf(datagram.data.fields, "type")
  IN IF i = 0 THEN "" ELSE datagram.data.fields[i].members[1]

\* C21: a frame without a type tag or with a tag other than that of an
\* observation frame publishes no delta.
C21_UnrecognizedDropped ==
  (WsHandled /\ FrameType # "obs_st") => published = <<>>

\* C22: after a frame with a 22-element observation array was handled while
\* the streaming service is enabled, the cache holds under `tempest` the
\* entry the same observation leaves there when it arrives as a datagram.
C22_FrameCached ==
  (WsHandled /\ webSocketEnabled /\ hasObs(datagram.data.fields)) =>
    LET obs == datagram.data.fields[indexOf(datagram.data.fields, "obs")].members
    IN mapGet(latestObservations, "tempest") =
         <<[timestamp |-> now] @@ tempestData([type |-> "obs_st", obs |-> obs])>>

\* C23: a path the socket and the poll both publish carries the same value
\* for the same raw input: every delta of a frame whose path current
\* conditions with the same raw values are published on has the value
\* published there.
C23_OneRule ==
  (WsHandled /\ hasObs(datagram.data.fields) /\ latestForecastData # null) =>
    \A i \in 1..Len(published) :
      \A polled \in Range(currentConditionsDeltas(latestForecastData[1].current_conditions[1])) :
        (published[i].path = polled.path => published[i].value = polled.value)

=============================================================================
